---- MODULE Spec2Model ----
(***************************************************************************)
(* Slapstick enhancer: the olog taxonomy and static tables, the intent     *)
(* resolver (design_intent_to_parameters), the prompt templates and the    *)
(* four MCP tools, modelled from slapstick_ologs.py and                    *)
(* slapstick_enhancer_mcp.py.                                              *)
(*                                                                         *)
(* Python str values are sequences of characters, so that str.upper() and   *)
(* the enum lookup by member name are computed.  A character is the string *)
(* of that one character; a character that a string of this language       *)
(* cannot hold (a control character, the double quote, the backslash,      *)
(* U+00A0, U+00AD and every character above U+00FF) is the string "U+"     *)
(* followed by its code point in at least four hexadecimal digits, as in   *)
(* "U+0022" and "U+017F".  A string                                        *)
(* that the code only joins with ", " (a prompt, a phrase fragment) is the *)
(* sequence of its ", "-separated terms, so that ", ".join is              *)
(* concatenation and the terms of the result can be counted.               *)
(***************************************************************************)
EXTENDS Integers, Sequences, FiniteSets, TLC

VARIABLES olog, call, response

vars == <<olog, call, response>>

(***************************************************************************)
(* LAYER 1: the taxonomy.  An enum member is identified by its name, each  *)
(* enum is the sequence of its members in definition order.                *)
(***************************************************************************)
SubjectType ==
  <<"ARCHITECTURE", "PORTRAIT", "STILL_LIFE", "LANDSCAPE", "ABSTRACT", "PRODUCT", "SCENE">>

EmotionalTone ==
  <<"PLAYFUL", "TENSE", "ABSURD", "WHIMSICAL", "SURREAL", "DRAMATIC", "CHAOTIC",
    "ELEGANT", "OMINOUS">>

VisualPriority ==
  <<"SCALE", "PHYSICS", "REPETITION", "CLARITY", "SUSPENSE", "RHYTHM", "DISTORTION",
    "BALANCE", "FLOW", "IMPACT">>

IntensityLevel ==
  <<"SUBTLE", "MODERATE", "STRONG", "EXTREME">>

\* The six parameters, in the order of the fields of SlapstickParameterSet.
ParamNames ==
  <<"exaggeration", "timing", "physical", "ruleOfThree", "readability", "tension">>

\* The member name of each enum member, as the characters of the Python str.
NameOf ==
  [ARCHITECTURE |-> <<"A","R","C","H","I","T","E","C","T","U","R","E">>,
  PORTRAIT |-> <<"P","O","R","T","R","A","I","T">>,
  STILL_LIFE |-> <<"S","T","I","L","L","_","L","I","F","E">>,
  LANDSCAPE |-> <<"L","A","N","D","S","C","A","P","E">>,
  ABSTRACT |-> <<"A","B","S","T","R","A","C","T">>,
  PRODUCT |-> <<"P","R","O","D","U","C","T">>,
  SCENE |-> <<"S","C","E","N","E">>,
  PLAYFUL |-> <<"P","L","A","Y","F","U","L">>,
  TENSE |-> <<"T","E","N","S","E">>,
  ABSURD |-> <<"A","B","S","U","R","D">>,
  WHIMSICAL |-> <<"W","H","I","M","S","I","C","A","L">>,
  SURREAL |-> <<"S","U","R","R","E","A","L">>,
  DRAMATIC |-> <<"D","R","A","M","A","T","I","C">>,
  CHAOTIC |-> <<"C","H","A","O","T","I","C">>,
  ELEGANT |-> <<"E","L","E","G","A","N","T">>,
  OMINOUS |-> <<"O","M","I","N","O","U","S">>,
  SCALE |-> <<"S","C","A","L","E">>,
  PHYSICS |-> <<"P","H","Y","S","I","C","S">>,
  REPETITION |-> <<"R","E","P","E","T","I","T","I","O","N">>,
  CLARITY |-> <<"C","L","A","R","I","T","Y">>,
  SUSPENSE |-> <<"S","U","S","P","E","N","S","E">>,
  RHYTHM |-> <<"R","H","Y","T","H","M">>,
  DISTORTION |-> <<"D","I","S","T","O","R","T","I","O","N">>,
  BALANCE |-> <<"B","A","L","A","N","C","E">>,
  FLOW |-> <<"F","L","O","W">>,
  IMPACT |-> <<"I","M","P","A","C","T">>,
  SUBTLE |-> <<"S","U","B","T","L","E">>,
  MODERATE |-> <<"M","O","D","E","R","A","T","E">>,
  STRONG |-> <<"S","T","R","O","N","G">>,
  EXTREME |-> <<"E","X","T","R","E","M","E">>]

\* The member value (the display string) of each enum member.
ValueOf ==
  [ARCHITECTURE |-> <<"a","r","c","h","i","t","e","c","t","u","r","e">>,
  PORTRAIT |-> <<"p","o","r","t","r","a","i","t">>,
  STILL_LIFE |-> <<"s","t","i","l","l","_","l","i","f","e">>,
  LANDSCAPE |-> <<"l","a","n","d","s","c","a","p","e">>,
  ABSTRACT |-> <<"a","b","s","t","r","a","c","t">>,
  PRODUCT |-> <<"p","r","o","d","u","c","t">>,
  SCENE |-> <<"s","c","e","n","e">>,
  PLAYFUL |-> <<"p","l","a","y","f","u","l">>,
  TENSE |-> <<"t","e","n","s","e">>,
  ABSURD |-> <<"a","b","s","u","r","d">>,
  WHIMSICAL |-> <<"w","h","i","m","s","i","c","a","l">>,
  SURREAL |-> <<"s","u","r","r","e","a","l">>,
  DRAMATIC |-> <<"d","r","a","m","a","t","i","c">>,
  CHAOTIC |-> <<"c","h","a","o","t","i","c">>,
  ELEGANT |-> <<"e","l","e","g","a","n","t">>,
  OMINOUS |-> <<"o","m","i","n","o","u","s">>,
  SCALE |-> <<"s","c","a","l","e">>,
  PHYSICS |-> <<"p","h","y","s","i","c","s">>,
  REPETITION |-> <<"r","e","p","e","t","i","t","i","o","n">>,
  CLARITY |-> <<"c","l","a","r","i","t","y">>,
  SUSPENSE |-> <<"s","u","s","p","e","n","s","e">>,
  RHYTHM |-> <<"r","h","y","t","h","m">>,
  DISTORTION |-> <<"d","i","s","t","o","r","t","i","o","n">>,
  BALANCE |-> <<"b","a","l","a","n","c","e">>,
  FLOW |-> <<"f","l","o","w">>,
  IMPACT |-> <<"i","m","p","a","c","t">>,
  SUBTLE |-> <<"s","u","b","t","l","e">>,
  MODERATE |-> <<"m","o","d","e","r","a","t","e">>,
  STRONG |-> <<"s","t","r","o","n","g">>,
  EXTREME |-> <<"e","x","t","r","e","m","e">>]

Range(s) == {s[i] : i \in DOMAIN s}

(***************************************************************************)
(* LAYER 2: SlapstickParameterSet, a record of the six fields.             *)
(***************************************************************************)
SlapstickParameterSet(exaggeration, timing, physical, ruleOfThree, readability, tension) ==
  [exaggeration |-> exaggeration, timing |-> timing, physical |-> physical,
   ruleOfThree |-> ruleOfThree, readability |-> readability, tension |-> tension]

\* SlapstickParameterSet.to_dict: the dictionary of the six fields.
to_dict(params) ==
  [p \in Range(ParamNames) |-> params[p]]

\* SlapstickParameterSet.validate: every field satisfies 0 <= value <= 10.
validate(params) ==
  \A i \in DOMAIN ParamNames : 0 <= params[ParamNames[i]] /\ params[ParamNames[i]] <= 10

DesignIntent(subject_type, emotional_tone, visual_priorities, intensity_level) ==
  [subject_type |-> subject_type, emotional_tone |-> emotional_tone,
   visual_priorities |-> visual_priorities, intensity_level |-> intensity_level]

(***************************************************************************)
(* LAYER 3: the static tables of SlapstickOlogMorphisms.                   *)
(***************************************************************************)
SUBJECT_TYPE_PRESETS ==
  [ARCHITECTURE |-> SlapstickParameterSet(7, 4, 6, 7, 6, 8),
   PORTRAIT     |-> SlapstickParameterSet(6, 5, 4, 5, 8, 4),
   STILL_LIFE   |-> SlapstickParameterSet(8, 6, 7, 8, 7, 6),
   LANDSCAPE    |-> SlapstickParameterSet(7, 7, 8, 6, 5, 7),
   ABSTRACT     |-> SlapstickParameterSet(9, 8, 9, 7, 4, 8),
   PRODUCT      |-> SlapstickParameterSet(8, 5, 6, 7, 9, 5),
   SCENE        |-> SlapstickParameterSet(6, 7, 7, 6, 6, 7)]

\* The multipliers 0.3, 0.6, 0.85, 1.0 as decimal fractions.  For every integer
\* 0..200 the binary floating point product rounds as the exact decimal product
\* does (5 * 0.3 is the double 1.5, 10 * 0.85 the double 8.5).
INTENSITY_MULTIPLIERS ==
  [SUBTLE   |-> [num |-> 3,   den |-> 10],
   MODERATE |-> [num |-> 6,   den |-> 10],
   STRONG   |-> [num |-> 85,  den |-> 100],
   EXTREME  |-> [num |-> 10,  den |-> 10]]

\* Each tone's dictionary, as its (parameter, delta) items in insertion order.
EMOTIONAL_TONE_MODIFIERS ==
  [PLAYFUL   |-> << <<"timing", 2>>, <<"physical", 2>>, <<"ruleOfThree", 1>> >>,
   TENSE     |-> << <<"tension", 3>>, <<"physical", -1>>, <<"readability", 1>> >>,
   ABSURD    |-> << <<"exaggeration", 3>>, <<"physical", 2>>, <<"readability", -2>> >>,
   WHIMSICAL |-> << <<"timing", 2>>, <<"ruleOfThree", 2>>, <<"exaggeration", 1>> >>,
   SURREAL   |-> << <<"exaggeration", 3>>, <<"physical", 3>>, <<"readability", -1>> >>,
   DRAMATIC  |-> << <<"tension", 3>>, <<"readability", 2>>, <<"timing", 1>> >>,
   CHAOTIC   |-> << <<"exaggeration", 2>>, <<"physical", 3>>, <<"timing", 2>>,
                    <<"readability", -2>> >>,
   ELEGANT   |-> << <<"readability", 3>>, <<"ruleOfThree", 2>>, <<"timing", 1>>,
                    <<"physical", -1>> >>,
   OMINOUS   |-> << <<"tension", 4>>, <<"timing", -1>>, <<"readability", 1>> >>]

VISUAL_PRIORITY_BOOSTS ==
  [SCALE      |-> "exaggeration",
   PHYSICS    |-> "physical",
   REPETITION |-> "ruleOfThree",
   CLARITY    |-> "readability",
   SUSPENSE   |-> "tension",
   RHYTHM     |-> "timing",
   DISTORTION |-> "exaggeration",
   BALANCE    |-> "tension",
   FLOW       |-> "timing",
   IMPACT     |-> "physical"]

\* The class attributes of SlapstickOlogMorphisms as they are after import.
SlapstickOlogMorphisms ==
  [SUBJECT_TYPE_PRESETS     |-> SUBJECT_TYPE_PRESETS,
   INTENSITY_MULTIPLIERS    |-> INTENSITY_MULTIPLIERS,
   EMOTIONAL_TONE_MODIFIERS |-> EMOTIONAL_TONE_MODIFIERS,
   VISUAL_PRIORITY_BOOSTS   |-> VISUAL_PRIORITY_BOOSTS]

(***************************************************************************)
(* Python builtins the resolver uses.                                      *)
(***************************************************************************)
\* A swapped builtin: max where min was meant.
MinAsMax(a, b) ==
  IF a > b THEN a ELSE b

Min(a, b) ==
  IF a < b THEN a ELSE b

Max(a, b) ==
  IF a > b THEN a ELSE b

\* int(num / den) where round was meant: the fraction is dropped.
RoundTruncated(num, den) ==
  num \div den

\* round(num / den), den > 0: to the nearest integer, a tie to the even one.
Round(num, den) ==
  LET q == num \div den
      r == num % den
  IN  IF 2 * r < den THEN q
      ELSE IF 2 * r > den THEN q + 1
      ELSE IF q % 2 = 0 THEN q ELSE q + 1

\* dict.get(key, default)
DictGet(d, key, default) ==
  IF key \in DOMAIN d THEN d[key] ELSE default

(***************************************************************************)
(* design_intent_to_parameters, step by step.                              *)
(***************************************************************************)
\* Step 2: each preset field times the multiplier, rounded.
ScaleByIntensity(subject_params, multiplier) ==
  [exaggeration |-> Round(subject_params.exaggeration * multiplier.num, multiplier.den),
   timing       |-> Round(subject_params.timing * multiplier.num, multiplier.den),
   physical     |-> Round(subject_params.physical * multiplier.num, multiplier.den),
   ruleOfThree  |-> Round(subject_params.ruleOfThree * multiplier.num, multiplier.den),
   readability  |-> Round(subject_params.readability * multiplier.num, multiplier.den),
   tension      |-> Round(subject_params.tension * multiplier.num, multiplier.den)]

\* A loop that leaves after its first item: only the first delta is applied.
ApplyToneModifiersFirstOnly(params, modifiers) ==
  IF modifiers = <<>> THEN params
  ELSE [params EXCEPT ![Head(modifiers)[1]] = Max(0, Min(10, @ + Head(modifiers)[2]))]

\* Step 3 with the clamp left to step 5: each delta is added and nothing is clamped.
RECURSIVE ApplyToneModifiersUnclamped(_, _)
ApplyToneModifiersUnclamped(params, modifiers) ==
  IF modifiers = <<>> THEN params
  ELSE ApplyToneModifiersUnclamped(
         [params EXCEPT ![Head(modifiers)[1]] = @ + Head(modifiers)[2]], Tail(modifiers))

\* Step 3: each delta added to its parameter and clamped to [0,10] at once.
RECURSIVE ApplyToneModifiers(_, _)
ApplyToneModifiers(params, modifiers) ==
  IF modifiers = <<>> THEN params
  ELSE LET param_name == Head(modifiers)[1]
           delta      == Head(modifiers)[2]
           stepped    == IF param_name \in DOMAIN params
                         THEN [params EXCEPT ![param_name] = Max(0, Min(10, @ + delta))]
                         ELSE params
       IN  ApplyToneModifiers(stepped, Tail(modifiers))

\* A boost that overwrites the vector instead of accumulating: only the last
\* priority of the list takes effect.
ApplyPriorityBoostsLastWins(params, priorities, boosts) ==
  IF priorities = <<>> THEN params
  ELSE LET target_param == boosts[priorities[Len(priorities)]]
       IN  [params EXCEPT ![target_param] = Min(10, @ + 2)]

\* Step 4 without the cap: 2 is added to the target and min(10, ...) is left out.
RECURSIVE ApplyPriorityBoostsUncapped(_, _, _)
ApplyPriorityBoostsUncapped(params, priorities, boosts) ==
  IF priorities = <<>> THEN params
  ELSE LET target_param == boosts[Head(priorities)]
       IN  ApplyPriorityBoostsUncapped([params EXCEPT ![target_param] = @ + 2],
                                       Tail(priorities), boosts)

\* A boost with the sign slipped: 2 is subtracted.
RECURSIVE ApplyPriorityBoostsMinus(_, _, _)
ApplyPriorityBoostsMinus(params, priorities, boosts) ==
  IF priorities = <<>> THEN params
  ELSE LET target_param == boosts[Head(priorities)]
       IN  ApplyPriorityBoostsMinus([params EXCEPT ![target_param] = Min(10, @ - 2)],
                                    Tail(priorities), boosts)

\* Step 4: each priority of the list, in order, adds 2 to its target, capped at 10.
RECURSIVE ApplyPriorityBoosts(_, _, _)
ApplyPriorityBoosts(params, priorities, boosts) ==
  IF priorities = <<>> THEN params
  ELSE LET priority == Head(priorities)
           stepped  == IF priority \in DOMAIN boosts /\ boosts[priority] \in DOMAIN params
                       THEN [params EXCEPT ![boosts[priority]] = Min(10, @ + 2)]
                       ELSE params
       IN  ApplyPriorityBoosts(stepped, Tail(priorities), boosts)

\* Step 5: every value rounded and clamped to [0,10].
ClampAll(params) ==
  [p \in DOMAIN params |-> Max(0, Min(10, Round(params[p], 1)))]

\* The objects a call of design_intent_to_parameters reads and writes, by reference.
\* A preset object is referred to by the key under which SUBJECT_TYPE_PRESETS holds
\* it; the dict the call builds is referred to by NewDict, which is no key of the
\* table.
\* An object is the record of its fields (a SlapstickParameterSet) or items (a dict).
NewDict == "params"

\* Step 1: the object subject_params names, the preset under the subject type or,
\* when the table has no such key, the preset under SCENE.
SubjectParams(design_intent) ==
  IF design_intent.subject_type \in DOMAIN olog.SUBJECT_TYPE_PRESETS
  THEN design_intent.subject_type ELSE "SCENE"

\* A step 2 that takes the attribute dict of the preset for params (vars(subject_params))
\* instead of building a dict: params and subject_params are one object.
ParamsOfSubject(subject_params) ==
  subject_params

\* The object params names: the dict display of step 2 creates a dict, whatever
\* subject_params is.
Params(subject_params) ==
  NewDict

\* The objects a call holds: those the table SUBJECT_TYPE_PRESETS holds, by key, and
\* the dict the call has built (the empty tuple while it has built none).
Objects(presets) ==
  [presets |-> presets, dict |-> <<>>]

\* The object under the reference.
GetObject(objects, ref) ==
  IF ref = NewDict THEN objects.dict ELSE objects.presets[ref]

\* The objects with the object under the reference replaced (params[...] = ...).
SetObject(objects, ref, value) ==
  IF ref = NewDict THEN [objects EXCEPT !.dict = value]
  ELSE [objects EXCEPT !.presets[ref] = value]

\* The objects after step 2: the fields of subject_params times the multiplier of the
\* intensity level (MODERATE's when absent), rounded, stored under params.
ObjectsAfterStep2(design_intent) ==
  LET objects        == Objects(olog.SUBJECT_TYPE_PRESETS)
      subject_params == SubjectParams(design_intent)
      multiplier     == DictGet(olog.INTENSITY_MULTIPLIERS, design_intent.intensity_level,
                                olog.INTENSITY_MULTIPLIERS["MODERATE"])
  IN  SetObject(objects, Params(subject_params),
                ScaleByIntensity(GetObject(objects, subject_params), multiplier))

\* The objects after step 3: the items of params with the tone's modifiers applied.
ObjectsAfterStep3(design_intent) ==
  LET objects == ObjectsAfterStep2(design_intent)
      params  == Params(SubjectParams(design_intent))
  IN  SetObject(objects, params,
                ApplyToneModifiers(GetObject(objects, params),
                                   DictGet(olog.EMOTIONAL_TONE_MODIFIERS,
                                           design_intent.emotional_tone, <<>>)))

\* The objects after step 4: the items of params with the priorities' boosts applied.
ObjectsAfterStep4(design_intent) ==
  LET objects == ObjectsAfterStep3(design_intent)
      params  == Params(SubjectParams(design_intent))
  IN  SetObject(objects, params,
                ApplyPriorityBoosts(GetObject(objects, params),
                                    design_intent.visual_priorities,
                                    olog.VISUAL_PRIORITY_BOOSTS))

\* The objects after step 5: every item of params rounded and clamped.
ObjectsAfterStep5(design_intent) ==
  LET objects == ObjectsAfterStep4(design_intent)
      params  == Params(SubjectParams(design_intent))
  IN  SetObject(objects, params, ClampAll(GetObject(objects, params)))

\* Steps 1 and 2: params as step 2 leaves it, the preset of the subject type scaled by
\* the multiplier of the intensity level.
ScaledVector(design_intent) ==
  GetObject(ObjectsAfterStep2(design_intent),
            Params(SubjectParams(design_intent)))

\* Steps 1 to 3: params with the tone's modifiers applied.
TonedVector(design_intent) ==
  GetObject(ObjectsAfterStep3(design_intent),
            Params(SubjectParams(design_intent)))

\* Steps 1 to 4: params as the final pass of step 5 finds it.
WorkingVector(design_intent) ==
  GetObject(ObjectsAfterStep4(design_intent),
            Params(SubjectParams(design_intent)))

\* The return value: a SlapstickParameterSet made of the items of params.
design_intent_to_parameters(design_intent) ==
  LET params == GetObject(ObjectsAfterStep5(design_intent),
                            Params(SubjectParams(design_intent)))
  IN  SlapstickParameterSet(params["exaggeration"], params["timing"], params["physical"],
                            params["ruleOfThree"], params["readability"], params["tension"])

\* SlapstickOlogMorphisms.validate_parameters
validate_parameters(params) ==
  validate(params)

\* The class attributes of SlapstickOlogMorphisms when design_intent_to_parameters
\* returns.  No statement assigns to a table or to an item of one (the four are read
\* by dict.get, subscript and iteration), so each table holds the objects it held;
\* the preset objects have the fields steps 2 to 5 left them with.
OlogAfterResolve(design_intent) ==
  [olog EXCEPT !.SUBJECT_TYPE_PRESETS = ObjectsAfterStep5(design_intent).presets]

(***************************************************************************)
(* parameters_to_enhancement_description.  The if/elif chain of each       *)
(* parameter is the sequence of its branches in the order they are tried:  *)
(* the threshold the value is compared with (>=) and the description the   *)
(* branch stores; the else branch has no comparison.                        *)
(* A description is returned as it is, so it is kept as one string.        *)
(***************************************************************************)
DescriptionBranches ==
  [exaggeration |->
     <<[test |-> "ge", threshold |-> 9, text |-> "extreme distortions with impossible scales"],
       [test |-> "ge", threshold |-> 6, text |-> "obvious proportion exaggerations"],
       [test |-> "ge", threshold |-> 3, text |-> "subtle scale variations"],
       [test |-> "else", text |-> "minimal exaggeration"]>>,
   timing |->
     <<[test |-> "ge", threshold |-> 9, text |-> "staccato visual interruptions"],
       [test |-> "ge", threshold |-> 6, text |-> "strong rhythmic composition"],
       [test |-> "ge", threshold |-> 3, text |-> "gentle repetition"],
       [test |-> "else", text |-> "static composition"]>>,
   physical |->
     <<[test |-> "ge", threshold |-> 9, text |-> "extreme elasticity and squash-stretch"],
       [test |-> "ge", threshold |-> 6, text |-> "squash and stretch principles"],
       [test |-> "ge", threshold |-> 3, text |-> "subtle material flexibility"],
       [test |-> "else", text |-> "realistic physics"]>>,
   ruleOfThree |->
     <<[test |-> "ge", threshold |-> 9, text |-> "complex triplet patterns"],
       [test |-> "ge", threshold |-> 6, text |-> "clear triplet groupings"],
       [test |-> "ge", threshold |-> 3, text |-> "subtle triplet hints"],
       [test |-> "else", text |-> "no triplet emphasis"]>>,
   readability |->
     <<[test |-> "ge", threshold |-> 9, text |-> "crystal clear graphic simplification"],
       [test |-> "ge", threshold |-> 6, text |-> "strong silhouette clarity"],
       [test |-> "ge", threshold |-> 3, text |-> "subtle graphic emphasis"],
       [test |-> "else", text |-> "complex visual details"]>>,
   tension |->
     <<[test |-> "ge", threshold |-> 9, text |-> "extreme precarious balance"],
       [test |-> "ge", threshold |-> 6, text |-> "strong suspenseful moment"],
       [test |-> "ge", threshold |-> 3, text |-> "subtle tension"],
       [test |-> "else", text |-> "peaceful balance"]>>]

\* The condition of a branch with > in place of >=.
BranchTakenStrict(value, branch) ==
  IF branch.test = "else" THEN TRUE ELSE value > branch.threshold

\* The condition of a branch: value >= threshold, nothing for the else branch.
BranchTaken(value, branch) ==
  IF branch.test = "else" THEN TRUE ELSE value >= branch.threshold

\* The position in the chain of the branch that runs: the first whose condition holds.
DescriptionBranch(value, branches) ==
  CHOOSE i \in DOMAIN branches :
    /\ BranchTaken(value, branches[i])
    /\ \A j \in 1..(i - 1) : ~BranchTaken(value, branches[j])

\* The dictionary descriptions: one entry per parameter.
parameters_to_enhancement_description(params) ==
  [p \in Range(ParamNames) |->
     DescriptionBranches[p][DescriptionBranch(params[p], DescriptionBranches[p])].text]

(***************************************************************************)
(* SlapstickPromptTemplates: the phrase tables.  Each enhancement table is *)
(* the sequence of its (min, max) -> text items in insertion order; a text *)
(* is the sequence of its ", "-separated terms.                            *)
(***************************************************************************)
EXAGGERATION_TEMPLATES ==
  <<
     [min |-> 9, max |-> 10,
      text |-> <<"extreme distortions with impossible scales showing 3-5x size variations",
                 "surreal color intensity",
                 "warped perspective that shouldn't work but does">>],
     [min |-> 6, max |-> 8,
      text |-> <<"obvious proportion exaggerations",
                 "oversaturated colors and heightened contrast", "forced perspective">>],
     [min |-> 3, max |-> 5,
      text |-> <<"subtle scale variations and slightly heightened color saturation">>],
     [min |-> 0, max |-> 2,
      text |-> <<"realistic proportions and natural color">>]
  >>

TIMING_TEMPLATES ==
  <<
     [min |-> 9, max |-> 10,
      text |-> <<"staccato visual interruptions", "dramatic motion blur on static objects",
                 "speed lines suggesting imminent action">>],
     [min |-> 6, max |-> 8,
      text |-> <<"strong rhythmic composition with repeating elements",
                 "anticipation spaces and visual pauses between key elements">>],
     [min |-> 3, max |-> 5,
      text |-> <<"gentle repetition of visual elements creating compositional rhythm">>],
     [min |-> 0, max |-> 2,
      text |-> <<"static composition without temporal elements">>]
  >>

PHYSICAL_TEMPLATES ==
  <<
     [min |-> 9, max |-> 10,
      text |-> <<"extreme elasticity and squash-stretch distortion",
                 "mid-collision freeze-frame moment",
                 "materials stretched or compressed cartoonishly",
                 "complete defiance of physics">>],
     [min |-> 6, max |-> 8,
      text |-> <<"squash and stretch principles applied to forms",
                 "gravity-defying elements", "objects mid-fall or impossibly suspended">>],
     [min |-> 3, max |-> 5,
      text |-> <<"subtle material flexibility", "slight impossibilities in physics">>],
     [min |-> 0, max |-> 2,
      text |-> <<"realistic physics and rigid materials">>]
  >>

RULE_OF_THREE_TEMPLATES ==
  <<
     [min |-> 9, max |-> 10,
      text |-> <<"complex establish-repeat-subvert patterns",
                 "three-part visual jokes in composition", "triple visual callbacks",
                 "all using rule of thirds positioning">>],
     [min |-> 6, max |-> 8,
      text |-> <<"clear triplet groupings",
                 "establish one element then systematically repeat-with-variation twice more",
                 "visual pattern of three">>],
     [min |-> 3, max |-> 5,
      text |-> <<"subtle hints of grouping in threes", "occasional triplet arrangement">>],
     [min |-> 0, max |-> 2,
      text |-> <<"no emphasis on triplet groupings">>]
  >>

READABILITY_TEMPLATES ==
  <<
     [min |-> 9, max |-> 10,
      text |-> <<"crystal clear graphic simplification and silhouette clarity",
                 "high contrast separating subject from background",
                 "visual clarity even from distance">>],
     [min |-> 6, max |-> 8,
      text |-> <<"strong silhouette clarity and graphic simplification",
                 "clear contrast between subject and environment">>],
     [min |-> 3, max |-> 5,
      text |-> <<"subtle graphic emphasis with readable forms">>],
     [min |-> 0, max |-> 2,
      text |-> <<"complex visual details without simplification">>]
  >>

TENSION_TEMPLATES ==
  <<
     [min |-> 9, max |-> 10,
      text |-> <<"extreme precarious balance suggesting imminent collapse",
                 "maximum suspense and about-to-happen energy", "frozen moment of chaos">>],
     [min |-> 6, max |-> 8,
      text |-> <<"strong suspenseful moment with clear tension",
                 "objects at unstable angles", "sense of impending action">>],
     [min |-> 3, max |-> 5,
      text |-> <<"subtle underlying tension and unease">>],
     [min |-> 0, max |-> 2,
      text |-> <<"peaceful balanced composition">>]
  >>

NEGATIVE_PROMPT_COMPONENTS ==
  [high_exaggeration |->
     <<"realistic proportions", "natural colors", "subtle">>,
   high_timing |->
     <<"static composition", "no motion", "no rhythm">>,
   high_physical |->
     <<"realistic physics", "rigid materials", "no distortion">>,
   high_rule_of_three |->
     <<"no pattern", "no rhythm", "random composition">>,
   low_readability |->
     <<"cluttered", "confusing", "unclear silhouette">>,
   high_tension |->
     <<"peaceful", "calm", "balanced", "serene">>]

\* The empty str: one empty term.
EmptyStr == <<"">>

\* ", ".join(strs)
RECURSIVE Join(_)
Join(strs) ==
  IF strs = <<>> THEN EmptyStr
  ELSE IF Len(strs) = 1 THEN strs[1]
  ELSE strs[1] \o Join(Tail(strs))

\* The (min, max) key of item a sorts at or after that of item b.
KeyGE(a, b) ==
  a.min > b.min \/ (a.min = b.min /\ a.max >= b.max)

\* The item put before the first item of a descending sequence that it sorts at or after.
RECURSIVE InsertDescending(_, _)
InsertDescending(item, sorted) ==
  IF sorted = <<>> THEN <<item>>
  ELSE IF KeyGE(item, Head(sorted)) THEN <<item>> \o sorted
  ELSE <<Head(sorted)>> \o InsertDescending(item, Tail(sorted))

\* sorted(templates.items(), reverse=True): the items by descending key.
RECURSIVE SortedReverse(_)
SortedReverse(items) ==
  IF items = <<>> THEN <<>>
  ELSE InsertDescending(Head(items), SortedReverse(Tail(items)))

\* The loop of get_template with the lower comparison strict.
RECURSIVE FirstMatchStrict(_, _)
FirstMatchStrict(param_value, items) ==
  IF items = <<>> THEN EmptyStr
  ELSE IF Head(items).min < param_value /\ param_value <= Head(items).max
       THEN Head(items).text
       ELSE FirstMatchStrict(param_value, Tail(items))

\* The loop of get_template: the text of the first item whose range holds the value.
RECURSIVE FirstMatch(_, _)
FirstMatch(param_value, items) ==
  IF items = <<>> THEN EmptyStr
  ELSE IF Head(items).min <= param_value /\ param_value <= Head(items).max
       THEN Head(items).text
       ELSE FirstMatch(param_value, Tail(items))

\* get_template with min_val < param_value in place of min_val <= param_value.
get_templateStrict(param_value, templates) ==
  FirstMatchStrict(param_value, SortedReverse(templates))

get_template(param_value, templates) ==
  FirstMatch(param_value, SortedReverse(templates))

\* A fragment is appended when it is not the empty str.
AppendIfText(additions, text) ==
  IF text # EmptyStr THEN Append(additions, text) ELSE additions

\* The list additions of build_enhanced_prompt: one fragment per parameter, in the
\* order exaggeration, timing, physical, ruleOfThree, readability, tension.
EnhancementAdditions(params) ==
  LET exag_text     == get_template(params.exaggeration, EXAGGERATION_TEMPLATES)
      timing_text   == get_template(params.timing, TIMING_TEMPLATES)
      physical_text == get_template(params.physical, PHYSICAL_TEMPLATES)
      rot_text      == get_template(params.ruleOfThree, RULE_OF_THREE_TEMPLATES)
      read_text     == get_template(params.readability, READABILITY_TEMPLATES)
      tension_text  == get_template(params.tension, TENSION_TEMPLATES)
  IN  AppendIfText(AppendIfText(AppendIfText(AppendIfText(AppendIfText(AppendIfText(<<>>,
        exag_text), timing_text), physical_text), rot_text), read_text), tension_text)

build_enhanced_prompt(base_prompt, params) ==
  LET additions == EnhancementAdditions(params)
  IN  IF additions # <<>> THEN base_prompt \o Join(additions) ELSE base_prompt

\* build_negative_prompt with the readability gate at 6 like the other five.
build_negative_promptGate6(params) ==
  LET n1 == IF params.exaggeration >= 6
            THEN <<NEGATIVE_PROMPT_COMPONENTS.high_exaggeration>> ELSE <<>>
      n2 == IF params.timing >= 6
            THEN Append(n1, NEGATIVE_PROMPT_COMPONENTS.high_timing) ELSE n1
      n3 == IF params.physical >= 6
            THEN Append(n2, NEGATIVE_PROMPT_COMPONENTS.high_physical) ELSE n2
      n4 == IF params.ruleOfThree >= 6
            THEN Append(n3, NEGATIVE_PROMPT_COMPONENTS.high_rule_of_three) ELSE n3
      n5 == IF params.readability >= 6
            THEN Append(n4, NEGATIVE_PROMPT_COMPONENTS.low_readability) ELSE n4
      negatives == IF params.tension >= 6
                   THEN Append(n5, NEGATIVE_PROMPT_COMPONENTS.high_tension) ELSE n5
      base_negatives == << <<"blurry">>, <<"low quality">>, <<"distorted">>, <<"ugly">> >>
  IN  IF negatives # <<>> THEN Join(base_negatives \o negatives) ELSE Join(base_negatives)

build_negative_prompt(params) ==
  LET n1 == IF params.exaggeration >= 6
            THEN <<NEGATIVE_PROMPT_COMPONENTS.high_exaggeration>> ELSE <<>>
      n2 == IF params.timing >= 6
            THEN Append(n1, NEGATIVE_PROMPT_COMPONENTS.high_timing) ELSE n1
      n3 == IF params.physical >= 6
            THEN Append(n2, NEGATIVE_PROMPT_COMPONENTS.high_physical) ELSE n2
      n4 == IF params.ruleOfThree >= 6
            THEN Append(n3, NEGATIVE_PROMPT_COMPONENTS.high_rule_of_three) ELSE n3
      n5 == IF params.readability >= 8
            THEN Append(n4, NEGATIVE_PROMPT_COMPONENTS.low_readability) ELSE n4
      negatives == IF params.tension >= 6
                   THEN Append(n5, NEGATIVE_PROMPT_COMPONENTS.high_tension) ELSE n5
      base_negatives == << <<"blurry">>, <<"low quality">>, <<"distorted">>, <<"ugly">> >>
  IN  IF negatives # <<>> THEN Join(base_negatives \o negatives) ELSE Join(base_negatives)

(***************************************************************************)
(* Python behaviour the MCP tools rely on: str.upper, the lookup of an     *)
(* enum member by name, attribute access, exception classes.               *)
(***************************************************************************)
\* Every character that str.upper() changes, with the str it becomes: one character
\* or, for some, more ("U+FB02", the ligature fl, becomes "FL").
UnicodeUpperCase ==
  <<
    <<"a", <<"A">> >>, <<"b", <<"B">> >>, <<"c", <<"C">> >>, <<"d", <<"D">> >>,
    <<"e", <<"E">> >>, <<"f", <<"F">> >>, <<"g", <<"G">> >>, <<"h", <<"H">> >>,
    <<"i", <<"I">> >>, <<"j", <<"J">> >>, <<"k", <<"K">> >>, <<"l", <<"L">> >>,
    <<"m", <<"M">> >>, <<"n", <<"N">> >>, <<"o", <<"O">> >>, <<"p", <<"P">> >>,
    <<"q", <<"Q">> >>, <<"r", <<"R">> >>, <<"s", <<"S">> >>, <<"t", <<"T">> >>,
    <<"u", <<"U">> >>, <<"v", <<"V">> >>, <<"w", <<"W">> >>, <<"x", <<"X">> >>,
    <<"y", <<"Y">> >>, <<"z", <<"Z">> >>, <<"µ", <<"U+039C">> >>, <<"ß", <<"S","S">> >>,
    <<"à", <<"À">> >>, <<"á", <<"Á">> >>, <<"â", <<"Â">> >>, <<"ã", <<"Ã">> >>,
    <<"ä", <<"Ä">> >>, <<"å", <<"Å">> >>, <<"æ", <<"Æ">> >>, <<"ç", <<"Ç">> >>,
    <<"è", <<"È">> >>, <<"é", <<"É">> >>, <<"ê", <<"Ê">> >>, <<"ë", <<"Ë">> >>,
    <<"ì", <<"Ì">> >>, <<"í", <<"Í">> >>, <<"î", <<"Î">> >>, <<"ï", <<"Ï">> >>,
    <<"ð", <<"Ð">> >>, <<"ñ", <<"Ñ">> >>, <<"ò", <<"Ò">> >>, <<"ó", <<"Ó">> >>,
    <<"ô", <<"Ô">> >>, <<"õ", <<"Õ">> >>, <<"ö", <<"Ö">> >>, <<"ø", <<"Ø">> >>,
    <<"ù", <<"Ù">> >>, <<"ú", <<"Ú">> >>, <<"û", <<"Û">> >>, <<"ü", <<"Ü">> >>,
    <<"ý", <<"Ý">> >>, <<"þ", <<"Þ">> >>, <<"ÿ", <<"U+0178">> >>, <<"U+0101", <<"U+0100">> >>,
    <<"U+0103", <<"U+0102">> >>, <<"U+0105", <<"U+0104">> >>, <<"U+0107", <<"U+0106">> >>,
    <<"U+0109", <<"U+0108">> >>, <<"U+010B", <<"U+010A">> >>, <<"U+010D", <<"U+010C">> >>,
    <<"U+010F", <<"U+010E">> >>, <<"U+0111", <<"U+0110">> >>, <<"U+0113", <<"U+0112">> >>,
    <<"U+0115", <<"U+0114">> >>, <<"U+0117", <<"U+0116">> >>, <<"U+0119", <<"U+0118">> >>,
    <<"U+011B", <<"U+011A">> >>, <<"U+011D", <<"U+011C">> >>, <<"U+011F", <<"U+011E">> >>,
    <<"U+0121", <<"U+0120">> >>, <<"U+0123", <<"U+0122">> >>, <<"U+0125", <<"U+0124">> >>,
    <<"U+0127", <<"U+0126">> >>, <<"U+0129", <<"U+0128">> >>, <<"U+012B", <<"U+012A">> >>,
    <<"U+012D", <<"U+012C">> >>, <<"U+012F", <<"U+012E">> >>, <<"U+0131", <<"I">> >>,
    <<"U+0133", <<"U+0132">> >>, <<"U+0135", <<"U+0134">> >>, <<"U+0137", <<"U+0136">> >>,
    <<"U+013A", <<"U+0139">> >>, <<"U+013C", <<"U+013B">> >>, <<"U+013E", <<"U+013D">> >>,
    <<"U+0140", <<"U+013F">> >>, <<"U+0142", <<"U+0141">> >>, <<"U+0144", <<"U+0143">> >>,
    <<"U+0146", <<"U+0145">> >>, <<"U+0148", <<"U+0147">> >>, <<"U+0149", <<"U+02BC","N">> >>,
    <<"U+014B", <<"U+014A">> >>, <<"U+014D", <<"U+014C">> >>, <<"U+014F", <<"U+014E">> >>,
    <<"U+0151", <<"U+0150">> >>, <<"U+0153", <<"U+0152">> >>, <<"U+0155", <<"U+0154">> >>,
    <<"U+0157", <<"U+0156">> >>, <<"U+0159", <<"U+0158">> >>, <<"U+015B", <<"U+015A">> >>,
    <<"U+015D", <<"U+015C">> >>, <<"U+015F", <<"U+015E">> >>, <<"U+0161", <<"U+0160">> >>,
    <<"U+0163", <<"U+0162">> >>, <<"U+0165", <<"U+0164">> >>, <<"U+0167", <<"U+0166">> >>,
    <<"U+0169", <<"U+0168">> >>, <<"U+016B", <<"U+016A">> >>, <<"U+016D", <<"U+016C">> >>,
    <<"U+016F", <<"U+016E">> >>, <<"U+0171", <<"U+0170">> >>, <<"U+0173", <<"U+0172">> >>,
    <<"U+0175", <<"U+0174">> >>, <<"U+0177", <<"U+0176">> >>, <<"U+017A", <<"U+0179">> >>,
    <<"U+017C", <<"U+017B">> >>, <<"U+017E", <<"U+017D">> >>, <<"U+017F", <<"S">> >>,
    <<"U+0180", <<"U+0243">> >>, <<"U+0183", <<"U+0182">> >>, <<"U+0185", <<"U+0184">> >>,
    <<"U+0188", <<"U+0187">> >>, <<"U+018C", <<"U+018B">> >>, <<"U+0192", <<"U+0191">> >>,
    <<"U+0195", <<"U+01F6">> >>, <<"U+0199", <<"U+0198">> >>, <<"U+019A", <<"U+023D">> >>,
    <<"U+019E", <<"U+0220">> >>, <<"U+01A1", <<"U+01A0">> >>, <<"U+01A3", <<"U+01A2">> >>,
    <<"U+01A5", <<"U+01A4">> >>, <<"U+01A8", <<"U+01A7">> >>, <<"U+01AD", <<"U+01AC">> >>,
    <<"U+01B0", <<"U+01AF">> >>, <<"U+01B4", <<"U+01B3">> >>, <<"U+01B6", <<"U+01B5">> >>,
    <<"U+01B9", <<"U+01B8">> >>, <<"U+01BD", <<"U+01BC">> >>, <<"U+01BF", <<"U+01F7">> >>,
    <<"U+01C5", <<"U+01C4">> >>, <<"U+01C6", <<"U+01C4">> >>, <<"U+01C8", <<"U+01C7">> >>,
    <<"U+01C9", <<"U+01C7">> >>, <<"U+01CB", <<"U+01CA">> >>, <<"U+01CC", <<"U+01CA">> >>,
    <<"U+01CE", <<"U+01CD">> >>, <<"U+01D0", <<"U+01CF">> >>, <<"U+01D2", <<"U+01D1">> >>,
    <<"U+01D4", <<"U+01D3">> >>, <<"U+01D6", <<"U+01D5">> >>, <<"U+01D8", <<"U+01D7">> >>,
    <<"U+01DA", <<"U+01D9">> >>, <<"U+01DC", <<"U+01DB">> >>, <<"U+01DD", <<"U+018E">> >>,
    <<"U+01DF", <<"U+01DE">> >>, <<"U+01E1", <<"U+01E0">> >>, <<"U+01E3", <<"U+01E2">> >>,
    <<"U+01E5", <<"U+01E4">> >>, <<"U+01E7", <<"U+01E6">> >>, <<"U+01E9", <<"U+01E8">> >>,
    <<"U+01EB", <<"U+01EA">> >>, <<"U+01ED", <<"U+01EC">> >>, <<"U+01EF", <<"U+01EE">> >>,
    <<"U+01F0", <<"J","U+030C">> >>, <<"U+01F2", <<"U+01F1">> >>, <<"U+01F3", <<"U+01F1">> >>,
    <<"U+01F5", <<"U+01F4">> >>, <<"U+01F9", <<"U+01F8">> >>, <<"U+01FB", <<"U+01FA">> >>,
    <<"U+01FD", <<"U+01FC">> >>, <<"U+01FF", <<"U+01FE">> >>, <<"U+0201", <<"U+0200">> >>,
    <<"U+0203", <<"U+0202">> >>, <<"U+0205", <<"U+0204">> >>, <<"U+0207", <<"U+0206">> >>,
    <<"U+0209", <<"U+0208">> >>, <<"U+020B", <<"U+020A">> >>, <<"U+020D", <<"U+020C">> >>,
    <<"U+020F", <<"U+020E">> >>, <<"U+0211", <<"U+0210">> >>, <<"U+0213", <<"U+0212">> >>,
    <<"U+0215", <<"U+0214">> >>, <<"U+0217", <<"U+0216">> >>, <<"U+0219", <<"U+0218">> >>,
    <<"U+021B", <<"U+021A">> >>, <<"U+021D", <<"U+021C">> >>, <<"U+021F", <<"U+021E">> >>,
    <<"U+0223", <<"U+0222">> >>, <<"U+0225", <<"U+0224">> >>, <<"U+0227", <<"U+0226">> >>,
    <<"U+0229", <<"U+0228">> >>, <<"U+022B", <<"U+022A">> >>, <<"U+022D", <<"U+022C">> >>,
    <<"U+022F", <<"U+022E">> >>, <<"U+0231", <<"U+0230">> >>, <<"U+0233", <<"U+0232">> >>,
    <<"U+023C", <<"U+023B">> >>, <<"U+023F", <<"U+2C7E">> >>, <<"U+0240", <<"U+2C7F">> >>,
    <<"U+0242", <<"U+0241">> >>, <<"U+0247", <<"U+0246">> >>, <<"U+0249", <<"U+0248">> >>,
    <<"U+024B", <<"U+024A">> >>, <<"U+024D", <<"U+024C">> >>, <<"U+024F", <<"U+024E">> >>,
    <<"U+0250", <<"U+2C6F">> >>, <<"U+0251", <<"U+2C6D">> >>, <<"U+0252", <<"U+2C70">> >>,
    <<"U+0253", <<"U+0181">> >>, <<"U+0254", <<"U+0186">> >>, <<"U+0256", <<"U+0189">> >>,
    <<"U+0257", <<"U+018A">> >>, <<"U+0259", <<"U+018F">> >>, <<"U+025B", <<"U+0190">> >>,
    <<"U+025C", <<"U+A7AB">> >>, <<"U+0260", <<"U+0193">> >>, <<"U+0261", <<"U+A7AC">> >>,
    <<"U+0263", <<"U+0194">> >>, <<"U+0265", <<"U+A78D">> >>, <<"U+0266", <<"U+A7AA">> >>,
    <<"U+0268", <<"U+0197">> >>, <<"U+0269", <<"U+0196">> >>, <<"U+026A", <<"U+A7AE">> >>,
    <<"U+026B", <<"U+2C62">> >>, <<"U+026C", <<"U+A7AD">> >>, <<"U+026F", <<"U+019C">> >>,
    <<"U+0271", <<"U+2C6E">> >>, <<"U+0272", <<"U+019D">> >>, <<"U+0275", <<"U+019F">> >>,
    <<"U+027D", <<"U+2C64">> >>, <<"U+0280", <<"U+01A6">> >>, <<"U+0282", <<"U+A7C5">> >>,
    <<"U+0283", <<"U+01A9">> >>, <<"U+0287", <<"U+A7B1">> >>, <<"U+0288", <<"U+01AE">> >>,
    <<"U+0289", <<"U+0244">> >>, <<"U+028A", <<"U+01B1">> >>, <<"U+028B", <<"U+01B2">> >>,
    <<"U+028C", <<"U+0245">> >>, <<"U+0292", <<"U+01B7">> >>, <<"U+029D", <<"U+A7B2">> >>,
    <<"U+029E", <<"U+A7B0">> >>, <<"U+0345", <<"U+0399">> >>, <<"U+0371", <<"U+0370">> >>,
    <<"U+0373", <<"U+0372">> >>, <<"U+0377", <<"U+0376">> >>, <<"U+037B", <<"U+03FD">> >>,
    <<"U+037C", <<"U+03FE">> >>, <<"U+037D", <<"U+03FF">> >>,
    <<"U+0390", <<"U+0399","U+0308","U+0301">> >>, <<"U+03AC", <<"U+0386">> >>,
    <<"U+03AD", <<"U+0388">> >>, <<"U+03AE", <<"U+0389">> >>, <<"U+03AF", <<"U+038A">> >>,
    <<"U+03B0", <<"U+03A5","U+0308","U+0301">> >>, <<"U+03B1", <<"U+0391">> >>,
    <<"U+03B2", <<"U+0392">> >>, <<"U+03B3", <<"U+0393">> >>, <<"U+03B4", <<"U+0394">> >>,
    <<"U+03B5", <<"U+0395">> >>, <<"U+03B6", <<"U+0396">> >>, <<"U+03B7", <<"U+0397">> >>,
    <<"U+03B8", <<"U+0398">> >>, <<"U+03B9", <<"U+0399">> >>, <<"U+03BA", <<"U+039A">> >>,
    <<"U+03BB", <<"U+039B">> >>, <<"U+03BC", <<"U+039C">> >>, <<"U+03BD", <<"U+039D">> >>,
    <<"U+03BE", <<"U+039E">> >>, <<"U+03BF", <<"U+039F">> >>, <<"U+03C0", <<"U+03A0">> >>,
    <<"U+03C1", <<"U+03A1">> >>, <<"U+03C2", <<"U+03A3">> >>, <<"U+03C3", <<"U+03A3">> >>,
    <<"U+03C4", <<"U+03A4">> >>, <<"U+03C5", <<"U+03A5">> >>, <<"U+03C6", <<"U+03A6">> >>,
    <<"U+03C7", <<"U+03A7">> >>, <<"U+03C8", <<"U+03A8">> >>, <<"U+03C9", <<"U+03A9">> >>,
    <<"U+03CA", <<"U+03AA">> >>, <<"U+03CB", <<"U+03AB">> >>, <<"U+03CC", <<"U+038C">> >>,
    <<"U+03CD", <<"U+038E">> >>, <<"U+03CE", <<"U+038F">> >>, <<"U+03D0", <<"U+0392">> >>,
    <<"U+03D1", <<"U+0398">> >>, <<"U+03D5", <<"U+03A6">> >>, <<"U+03D6", <<"U+03A0">> >>,
    <<"U+03D7", <<"U+03CF">> >>, <<"U+03D9", <<"U+03D8">> >>, <<"U+03DB", <<"U+03DA">> >>,
    <<"U+03DD", <<"U+03DC">> >>, <<"U+03DF", <<"U+03DE">> >>, <<"U+03E1", <<"U+03E0">> >>,
    <<"U+03E3", <<"U+03E2">> >>, <<"U+03E5", <<"U+03E4">> >>, <<"U+03E7", <<"U+03E6">> >>,
    <<"U+03E9", <<"U+03E8">> >>, <<"U+03EB", <<"U+03EA">> >>, <<"U+03ED", <<"U+03EC">> >>,
    <<"U+03EF", <<"U+03EE">> >>, <<"U+03F0", <<"U+039A">> >>, <<"U+03F1", <<"U+03A1">> >>,
    <<"U+03F2", <<"U+03F9">> >>, <<"U+03F3", <<"U+037F">> >>, <<"U+03F5", <<"U+0395">> >>,
    <<"U+03F8", <<"U+03F7">> >>, <<"U+03FB", <<"U+03FA">> >>, <<"U+0430", <<"U+0410">> >>,
    <<"U+0431", <<"U+0411">> >>, <<"U+0432", <<"U+0412">> >>, <<"U+0433", <<"U+0413">> >>,
    <<"U+0434", <<"U+0414">> >>, <<"U+0435", <<"U+0415">> >>, <<"U+0436", <<"U+0416">> >>,
    <<"U+0437", <<"U+0417">> >>, <<"U+0438", <<"U+0418">> >>, <<"U+0439", <<"U+0419">> >>,
    <<"U+043A", <<"U+041A">> >>, <<"U+043B", <<"U+041B">> >>, <<"U+043C", <<"U+041C">> >>,
    <<"U+043D", <<"U+041D">> >>, <<"U+043E", <<"U+041E">> >>, <<"U+043F", <<"U+041F">> >>,
    <<"U+0440", <<"U+0420">> >>, <<"U+0441", <<"U+0421">> >>, <<"U+0442", <<"U+0422">> >>,
    <<"U+0443", <<"U+0423">> >>, <<"U+0444", <<"U+0424">> >>, <<"U+0445", <<"U+0425">> >>,
    <<"U+0446", <<"U+0426">> >>, <<"U+0447", <<"U+0427">> >>, <<"U+0448", <<"U+0428">> >>,
    <<"U+0449", <<"U+0429">> >>, <<"U+044A", <<"U+042A">> >>, <<"U+044B", <<"U+042B">> >>,
    <<"U+044C", <<"U+042C">> >>, <<"U+044D", <<"U+042D">> >>, <<"U+044E", <<"U+042E">> >>,
    <<"U+044F", <<"U+042F">> >>, <<"U+0450", <<"U+0400">> >>, <<"U+0451", <<"U+0401">> >>,
    <<"U+0452", <<"U+0402">> >>, <<"U+0453", <<"U+0403">> >>, <<"U+0454", <<"U+0404">> >>,
    <<"U+0455", <<"U+0405">> >>, <<"U+0456", <<"U+0406">> >>, <<"U+0457", <<"U+0407">> >>,
    <<"U+0458", <<"U+0408">> >>, <<"U+0459", <<"U+0409">> >>, <<"U+045A", <<"U+040A">> >>,
    <<"U+045B", <<"U+040B">> >>, <<"U+045C", <<"U+040C">> >>, <<"U+045D", <<"U+040D">> >>,
    <<"U+045E", <<"U+040E">> >>, <<"U+045F", <<"U+040F">> >>, <<"U+0461", <<"U+0460">> >>,
    <<"U+0463", <<"U+0462">> >>, <<"U+0465", <<"U+0464">> >>, <<"U+0467", <<"U+0466">> >>,
    <<"U+0469", <<"U+0468">> >>, <<"U+046B", <<"U+046A">> >>, <<"U+046D", <<"U+046C">> >>,
    <<"U+046F", <<"U+046E">> >>, <<"U+0471", <<"U+0470">> >>, <<"U+0473", <<"U+0472">> >>,
    <<"U+0475", <<"U+0474">> >>, <<"U+0477", <<"U+0476">> >>, <<"U+0479", <<"U+0478">> >>,
    <<"U+047B", <<"U+047A">> >>, <<"U+047D", <<"U+047C">> >>, <<"U+047F", <<"U+047E">> >>,
    <<"U+0481", <<"U+0480">> >>, <<"U+048B", <<"U+048A">> >>, <<"U+048D", <<"U+048C">> >>,
    <<"U+048F", <<"U+048E">> >>, <<"U+0491", <<"U+0490">> >>, <<"U+0493", <<"U+0492">> >>,
    <<"U+0495", <<"U+0494">> >>, <<"U+0497", <<"U+0496">> >>, <<"U+0499", <<"U+0498">> >>,
    <<"U+049B", <<"U+049A">> >>, <<"U+049D", <<"U+049C">> >>, <<"U+049F", <<"U+049E">> >>,
    <<"U+04A1", <<"U+04A0">> >>, <<"U+04A3", <<"U+04A2">> >>, <<"U+04A5", <<"U+04A4">> >>,
    <<"U+04A7", <<"U+04A6">> >>, <<"U+04A9", <<"U+04A8">> >>, <<"U+04AB", <<"U+04AA">> >>,
    <<"U+04AD", <<"U+04AC">> >>, <<"U+04AF", <<"U+04AE">> >>, <<"U+04B1", <<"U+04B0">> >>,
    <<"U+04B3", <<"U+04B2">> >>, <<"U+04B5", <<"U+04B4">> >>, <<"U+04B7", <<"U+04B6">> >>,
    <<"U+04B9", <<"U+04B8">> >>, <<"U+04BB", <<"U+04BA">> >>, <<"U+04BD", <<"U+04BC">> >>,
    <<"U+04BF", <<"U+04BE">> >>, <<"U+04C2", <<"U+04C1">> >>, <<"U+04C4", <<"U+04C3">> >>,
    <<"U+04C6", <<"U+04C5">> >>, <<"U+04C8", <<"U+04C7">> >>, <<"U+04CA", <<"U+04C9">> >>,
    <<"U+04CC", <<"U+04CB">> >>, <<"U+04CE", <<"U+04CD">> >>, <<"U+04CF", <<"U+04C0">> >>,
    <<"U+04D1", <<"U+04D0">> >>, <<"U+04D3", <<"U+04D2">> >>, <<"U+04D5", <<"U+04D4">> >>,
    <<"U+04D7", <<"U+04D6">> >>, <<"U+04D9", <<"U+04D8">> >>, <<"U+04DB", <<"U+04DA">> >>,
    <<"U+04DD", <<"U+04DC">> >>, <<"U+04DF", <<"U+04DE">> >>, <<"U+04E1", <<"U+04E0">> >>,
    <<"U+04E3", <<"U+04E2">> >>, <<"U+04E5", <<"U+04E4">> >>, <<"U+04E7", <<"U+04E6">> >>,
    <<"U+04E9", <<"U+04E8">> >>, <<"U+04EB", <<"U+04EA">> >>, <<"U+04ED", <<"U+04EC">> >>,
    <<"U+04EF", <<"U+04EE">> >>, <<"U+04F1", <<"U+04F0">> >>, <<"U+04F3", <<"U+04F2">> >>,
    <<"U+04F5", <<"U+04F4">> >>, <<"U+04F7", <<"U+04F6">> >>, <<"U+04F9", <<"U+04F8">> >>,
    <<"U+04FB", <<"U+04FA">> >>, <<"U+04FD", <<"U+04FC">> >>, <<"U+04FF", <<"U+04FE">> >>,
    <<"U+0501", <<"U+0500">> >>, <<"U+0503", <<"U+0502">> >>, <<"U+0505", <<"U+0504">> >>,
    <<"U+0507", <<"U+0506">> >>, <<"U+0509", <<"U+0508">> >>, <<"U+050B", <<"U+050A">> >>,
    <<"U+050D", <<"U+050C">> >>, <<"U+050F", <<"U+050E">> >>, <<"U+0511", <<"U+0510">> >>,
    <<"U+0513", <<"U+0512">> >>, <<"U+0515", <<"U+0514">> >>, <<"U+0517", <<"U+0516">> >>,
    <<"U+0519", <<"U+0518">> >>, <<"U+051B", <<"U+051A">> >>, <<"U+051D", <<"U+051C">> >>,
    <<"U+051F", <<"U+051E">> >>, <<"U+0521", <<"U+0520">> >>, <<"U+0523", <<"U+0522">> >>,
    <<"U+0525", <<"U+0524">> >>, <<"U+0527", <<"U+0526">> >>, <<"U+0529", <<"U+0528">> >>,
    <<"U+052B", <<"U+052A">> >>, <<"U+052D", <<"U+052C">> >>, <<"U+052F", <<"U+052E">> >>,
    <<"U+0561", <<"U+0531">> >>, <<"U+0562", <<"U+0532">> >>, <<"U+0563", <<"U+0533">> >>,
    <<"U+0564", <<"U+0534">> >>, <<"U+0565", <<"U+0535">> >>, <<"U+0566", <<"U+0536">> >>,
    <<"U+0567", <<"U+0537">> >>, <<"U+0568", <<"U+0538">> >>, <<"U+0569", <<"U+0539">> >>,
    <<"U+056A", <<"U+053A">> >>, <<"U+056B", <<"U+053B">> >>, <<"U+056C", <<"U+053C">> >>,
    <<"U+056D", <<"U+053D">> >>, <<"U+056E", <<"U+053E">> >>, <<"U+056F", <<"U+053F">> >>,
    <<"U+0570", <<"U+0540">> >>, <<"U+0571", <<"U+0541">> >>, <<"U+0572", <<"U+0542">> >>,
    <<"U+0573", <<"U+0543">> >>, <<"U+0574", <<"U+0544">> >>, <<"U+0575", <<"U+0545">> >>,
    <<"U+0576", <<"U+0546">> >>, <<"U+0577", <<"U+0547">> >>, <<"U+0578", <<"U+0548">> >>,
    <<"U+0579", <<"U+0549">> >>, <<"U+057A", <<"U+054A">> >>, <<"U+057B", <<"U+054B">> >>,
    <<"U+057C", <<"U+054C">> >>, <<"U+057D", <<"U+054D">> >>, <<"U+057E", <<"U+054E">> >>,
    <<"U+057F", <<"U+054F">> >>, <<"U+0580", <<"U+0550">> >>, <<"U+0581", <<"U+0551">> >>,
    <<"U+0582", <<"U+0552">> >>, <<"U+0583", <<"U+0553">> >>, <<"U+0584", <<"U+0554">> >>,
    <<"U+0585", <<"U+0555">> >>, <<"U+0586", <<"U+0556">> >>,
    <<"U+0587", <<"U+0535","U+0552">> >>, <<"U+10D0", <<"U+1C90">> >>,
    <<"U+10D1", <<"U+1C91">> >>, <<"U+10D2", <<"U+1C92">> >>, <<"U+10D3", <<"U+1C93">> >>,
    <<"U+10D4", <<"U+1C94">> >>, <<"U+10D5", <<"U+1C95">> >>, <<"U+10D6", <<"U+1C96">> >>,
    <<"U+10D7", <<"U+1C97">> >>, <<"U+10D8", <<"U+1C98">> >>, <<"U+10D9", <<"U+1C99">> >>,
    <<"U+10DA", <<"U+1C9A">> >>, <<"U+10DB", <<"U+1C9B">> >>, <<"U+10DC", <<"U+1C9C">> >>,
    <<"U+10DD", <<"U+1C9D">> >>, <<"U+10DE", <<"U+1C9E">> >>, <<"U+10DF", <<"U+1C9F">> >>,
    <<"U+10E0", <<"U+1CA0">> >>, <<"U+10E1", <<"U+1CA1">> >>, <<"U+10E2", <<"U+1CA2">> >>,
    <<"U+10E3", <<"U+1CA3">> >>, <<"U+10E4", <<"U+1CA4">> >>, <<"U+10E5", <<"U+1CA5">> >>,
    <<"U+10E6", <<"U+1CA6">> >>, <<"U+10E7", <<"U+1CA7">> >>, <<"U+10E8", <<"U+1CA8">> >>,
    <<"U+10E9", <<"U+1CA9">> >>, <<"U+10EA", <<"U+1CAA">> >>, <<"U+10EB", <<"U+1CAB">> >>,
    <<"U+10EC", <<"U+1CAC">> >>, <<"U+10ED", <<"U+1CAD">> >>, <<"U+10EE", <<"U+1CAE">> >>,
    <<"U+10EF", <<"U+1CAF">> >>, <<"U+10F0", <<"U+1CB0">> >>, <<"U+10F1", <<"U+1CB1">> >>,
    <<"U+10F2", <<"U+1CB2">> >>, <<"U+10F3", <<"U+1CB3">> >>, <<"U+10F4", <<"U+1CB4">> >>,
    <<"U+10F5", <<"U+1CB5">> >>, <<"U+10F6", <<"U+1CB6">> >>, <<"U+10F7", <<"U+1CB7">> >>,
    <<"U+10F8", <<"U+1CB8">> >>, <<"U+10F9", <<"U+1CB9">> >>, <<"U+10FA", <<"U+1CBA">> >>,
    <<"U+10FD", <<"U+1CBD">> >>, <<"U+10FE", <<"U+1CBE">> >>, <<"U+10FF", <<"U+1CBF">> >>,
    <<"U+13F8", <<"U+13F0">> >>, <<"U+13F9", <<"U+13F1">> >>, <<"U+13FA", <<"U+13F2">> >>,
    <<"U+13FB", <<"U+13F3">> >>, <<"U+13FC", <<"U+13F4">> >>, <<"U+13FD", <<"U+13F5">> >>,
    <<"U+1C80", <<"U+0412">> >>, <<"U+1C81", <<"U+0414">> >>, <<"U+1C82", <<"U+041E">> >>,
    <<"U+1C83", <<"U+0421">> >>, <<"U+1C84", <<"U+0422">> >>, <<"U+1C85", <<"U+0422">> >>,
    <<"U+1C86", <<"U+042A">> >>, <<"U+1C87", <<"U+0462">> >>, <<"U+1C88", <<"U+A64A">> >>,
    <<"U+1D79", <<"U+A77D">> >>, <<"U+1D7D", <<"U+2C63">> >>, <<"U+1D8E", <<"U+A7C6">> >>,
    <<"U+1E01", <<"U+1E00">> >>, <<"U+1E03", <<"U+1E02">> >>, <<"U+1E05", <<"U+1E04">> >>,
    <<"U+1E07", <<"U+1E06">> >>, <<"U+1E09", <<"U+1E08">> >>, <<"U+1E0B", <<"U+1E0A">> >>,
    <<"U+1E0D", <<"U+1E0C">> >>, <<"U+1E0F", <<"U+1E0E">> >>, <<"U+1E11", <<"U+1E10">> >>,
    <<"U+1E13", <<"U+1E12">> >>, <<"U+1E15", <<"U+1E14">> >>, <<"U+1E17", <<"U+1E16">> >>,
    <<"U+1E19", <<"U+1E18">> >>, <<"U+1E1B", <<"U+1E1A">> >>, <<"U+1E1D", <<"U+1E1C">> >>,
    <<"U+1E1F", <<"U+1E1E">> >>, <<"U+1E21", <<"U+1E20">> >>, <<"U+1E23", <<"U+1E22">> >>,
    <<"U+1E25", <<"U+1E24">> >>, <<"U+1E27", <<"U+1E26">> >>, <<"U+1E29", <<"U+1E28">> >>,
    <<"U+1E2B", <<"U+1E2A">> >>, <<"U+1E2D", <<"U+1E2C">> >>, <<"U+1E2F", <<"U+1E2E">> >>,
    <<"U+1E31", <<"U+1E30">> >>, <<"U+1E33", <<"U+1E32">> >>, <<"U+1E35", <<"U+1E34">> >>,
    <<"U+1E37", <<"U+1E36">> >>, <<"U+1E39", <<"U+1E38">> >>, <<"U+1E3B", <<"U+1E3A">> >>,
    <<"U+1E3D", <<"U+1E3C">> >>, <<"U+1E3F", <<"U+1E3E">> >>, <<"U+1E41", <<"U+1E40">> >>,
    <<"U+1E43", <<"U+1E42">> >>, <<"U+1E45", <<"U+1E44">> >>, <<"U+1E47", <<"U+1E46">> >>,
    <<"U+1E49", <<"U+1E48">> >>, <<"U+1E4B", <<"U+1E4A">> >>, <<"U+1E4D", <<"U+1E4C">> >>,
    <<"U+1E4F", <<"U+1E4E">> >>, <<"U+1E51", <<"U+1E50">> >>, <<"U+1E53", <<"U+1E52">> >>,
    <<"U+1E55", <<"U+1E54">> >>, <<"U+1E57", <<"U+1E56">> >>, <<"U+1E59", <<"U+1E58">> >>,
    <<"U+1E5B", <<"U+1E5A">> >>, <<"U+1E5D", <<"U+1E5C">> >>, <<"U+1E5F", <<"U+1E5E">> >>,
    <<"U+1E61", <<"U+1E60">> >>, <<"U+1E63", <<"U+1E62">> >>, <<"U+1E65", <<"U+1E64">> >>,
    <<"U+1E67", <<"U+1E66">> >>, <<"U+1E69", <<"U+1E68">> >>, <<"U+1E6B", <<"U+1E6A">> >>,
    <<"U+1E6D", <<"U+1E6C">> >>, <<"U+1E6F", <<"U+1E6E">> >>, <<"U+1E71", <<"U+1E70">> >>,
    <<"U+1E73", <<"U+1E72">> >>, <<"U+1E75", <<"U+1E74">> >>, <<"U+1E77", <<"U+1E76">> >>,
    <<"U+1E79", <<"U+1E78">> >>, <<"U+1E7B", <<"U+1E7A">> >>, <<"U+1E7D", <<"U+1E7C">> >>,
    <<"U+1E7F", <<"U+1E7E">> >>, <<"U+1E81", <<"U+1E80">> >>, <<"U+1E83", <<"U+1E82">> >>,
    <<"U+1E85", <<"U+1E84">> >>, <<"U+1E87", <<"U+1E86">> >>, <<"U+1E89", <<"U+1E88">> >>,
    <<"U+1E8B", <<"U+1E8A">> >>, <<"U+1E8D", <<"U+1E8C">> >>, <<"U+1E8F", <<"U+1E8E">> >>,
    <<"U+1E91", <<"U+1E90">> >>, <<"U+1E93", <<"U+1E92">> >>, <<"U+1E95", <<"U+1E94">> >>,
    <<"U+1E96", <<"H","U+0331">> >>, <<"U+1E97", <<"T","U+0308">> >>,
    <<"U+1E98", <<"W","U+030A">> >>, <<"U+1E99", <<"Y","U+030A">> >>,
    <<"U+1E9A", <<"A","U+02BE">> >>, <<"U+1E9B", <<"U+1E60">> >>, <<"U+1EA1", <<"U+1EA0">> >>,
    <<"U+1EA3", <<"U+1EA2">> >>, <<"U+1EA5", <<"U+1EA4">> >>, <<"U+1EA7", <<"U+1EA6">> >>,
    <<"U+1EA9", <<"U+1EA8">> >>, <<"U+1EAB", <<"U+1EAA">> >>, <<"U+1EAD", <<"U+1EAC">> >>,
    <<"U+1EAF", <<"U+1EAE">> >>, <<"U+1EB1", <<"U+1EB0">> >>, <<"U+1EB3", <<"U+1EB2">> >>,
    <<"U+1EB5", <<"U+1EB4">> >>, <<"U+1EB7", <<"U+1EB6">> >>, <<"U+1EB9", <<"U+1EB8">> >>,
    <<"U+1EBB", <<"U+1EBA">> >>, <<"U+1EBD", <<"U+1EBC">> >>, <<"U+1EBF", <<"U+1EBE">> >>,
    <<"U+1EC1", <<"U+1EC0">> >>, <<"U+1EC3", <<"U+1EC2">> >>, <<"U+1EC5", <<"U+1EC4">> >>,
    <<"U+1EC7", <<"U+1EC6">> >>, <<"U+1EC9", <<"U+1EC8">> >>, <<"U+1ECB", <<"U+1ECA">> >>,
    <<"U+1ECD", <<"U+1ECC">> >>, <<"U+1ECF", <<"U+1ECE">> >>, <<"U+1ED1", <<"U+1ED0">> >>,
    <<"U+1ED3", <<"U+1ED2">> >>, <<"U+1ED5", <<"U+1ED4">> >>, <<"U+1ED7", <<"U+1ED6">> >>,
    <<"U+1ED9", <<"U+1ED8">> >>, <<"U+1EDB", <<"U+1EDA">> >>, <<"U+1EDD", <<"U+1EDC">> >>,
    <<"U+1EDF", <<"U+1EDE">> >>, <<"U+1EE1", <<"U+1EE0">> >>, <<"U+1EE3", <<"U+1EE2">> >>,
    <<"U+1EE5", <<"U+1EE4">> >>, <<"U+1EE7", <<"U+1EE6">> >>, <<"U+1EE9", <<"U+1EE8">> >>,
    <<"U+1EEB", <<"U+1EEA">> >>, <<"U+1EED", <<"U+1EEC">> >>, <<"U+1EEF", <<"U+1EEE">> >>,
    <<"U+1EF1", <<"U+1EF0">> >>, <<"U+1EF3", <<"U+1EF2">> >>, <<"U+1EF5", <<"U+1EF4">> >>,
    <<"U+1EF7", <<"U+1EF6">> >>, <<"U+1EF9", <<"U+1EF8">> >>, <<"U+1EFB", <<"U+1EFA">> >>,
    <<"U+1EFD", <<"U+1EFC">> >>, <<"U+1EFF", <<"U+1EFE">> >>, <<"U+1F00", <<"U+1F08">> >>,
    <<"U+1F01", <<"U+1F09">> >>, <<"U+1F02", <<"U+1F0A">> >>, <<"U+1F03", <<"U+1F0B">> >>,
    <<"U+1F04", <<"U+1F0C">> >>, <<"U+1F05", <<"U+1F0D">> >>, <<"U+1F06", <<"U+1F0E">> >>,
    <<"U+1F07", <<"U+1F0F">> >>, <<"U+1F10", <<"U+1F18">> >>, <<"U+1F11", <<"U+1F19">> >>,
    <<"U+1F12", <<"U+1F1A">> >>, <<"U+1F13", <<"U+1F1B">> >>, <<"U+1F14", <<"U+1F1C">> >>,
    <<"U+1F15", <<"U+1F1D">> >>, <<"U+1F20", <<"U+1F28">> >>, <<"U+1F21", <<"U+1F29">> >>,
    <<"U+1F22", <<"U+1F2A">> >>, <<"U+1F23", <<"U+1F2B">> >>, <<"U+1F24", <<"U+1F2C">> >>,
    <<"U+1F25", <<"U+1F2D">> >>, <<"U+1F26", <<"U+1F2E">> >>, <<"U+1F27", <<"U+1F2F">> >>,
    <<"U+1F30", <<"U+1F38">> >>, <<"U+1F31", <<"U+1F39">> >>, <<"U+1F32", <<"U+1F3A">> >>,
    <<"U+1F33", <<"U+1F3B">> >>, <<"U+1F34", <<"U+1F3C">> >>, <<"U+1F35", <<"U+1F3D">> >>,
    <<"U+1F36", <<"U+1F3E">> >>, <<"U+1F37", <<"U+1F3F">> >>, <<"U+1F40", <<"U+1F48">> >>,
    <<"U+1F41", <<"U+1F49">> >>, <<"U+1F42", <<"U+1F4A">> >>, <<"U+1F43", <<"U+1F4B">> >>,
    <<"U+1F44", <<"U+1F4C">> >>, <<"U+1F45", <<"U+1F4D">> >>,
    <<"U+1F50", <<"U+03A5","U+0313">> >>, <<"U+1F51", <<"U+1F59">> >>,
    <<"U+1F52", <<"U+03A5","U+0313","U+0300">> >>, <<"U+1F53", <<"U+1F5B">> >>,
    <<"U+1F54", <<"U+03A5","U+0313","U+0301">> >>, <<"U+1F55", <<"U+1F5D">> >>,
    <<"U+1F56", <<"U+03A5","U+0313","U+0342">> >>, <<"U+1F57", <<"U+1F5F">> >>,
    <<"U+1F60", <<"U+1F68">> >>, <<"U+1F61", <<"U+1F69">> >>, <<"U+1F62", <<"U+1F6A">> >>,
    <<"U+1F63", <<"U+1F6B">> >>, <<"U+1F64", <<"U+1F6C">> >>, <<"U+1F65", <<"U+1F6D">> >>,
    <<"U+1F66", <<"U+1F6E">> >>, <<"U+1F67", <<"U+1F6F">> >>, <<"U+1F70", <<"U+1FBA">> >>,
    <<"U+1F71", <<"U+1FBB">> >>, <<"U+1F72", <<"U+1FC8">> >>, <<"U+1F73", <<"U+1FC9">> >>,
    <<"U+1F74", <<"U+1FCA">> >>, <<"U+1F75", <<"U+1FCB">> >>, <<"U+1F76", <<"U+1FDA">> >>,
    <<"U+1F77", <<"U+1FDB">> >>, <<"U+1F78", <<"U+1FF8">> >>, <<"U+1F79", <<"U+1FF9">> >>,
    <<"U+1F7A", <<"U+1FEA">> >>, <<"U+1F7B", <<"U+1FEB">> >>, <<"U+1F7C", <<"U+1FFA">> >>,
    <<"U+1F7D", <<"U+1FFB">> >>, <<"U+1F80", <<"U+1F08","U+0399">> >>,
    <<"U+1F81", <<"U+1F09","U+0399">> >>, <<"U+1F82", <<"U+1F0A","U+0399">> >>,
    <<"U+1F83", <<"U+1F0B","U+0399">> >>, <<"U+1F84", <<"U+1F0C","U+0399">> >>,
    <<"U+1F85", <<"U+1F0D","U+0399">> >>, <<"U+1F86", <<"U+1F0E","U+0399">> >>,
    <<"U+1F87", <<"U+1F0F","U+0399">> >>, <<"U+1F88", <<"U+1F08","U+0399">> >>,
    <<"U+1F89", <<"U+1F09","U+0399">> >>, <<"U+1F8A", <<"U+1F0A","U+0399">> >>,
    <<"U+1F8B", <<"U+1F0B","U+0399">> >>, <<"U+1F8C", <<"U+1F0C","U+0399">> >>,
    <<"U+1F8D", <<"U+1F0D","U+0399">> >>, <<"U+1F8E", <<"U+1F0E","U+0399">> >>,
    <<"U+1F8F", <<"U+1F0F","U+0399">> >>, <<"U+1F90", <<"U+1F28","U+0399">> >>,
    <<"U+1F91", <<"U+1F29","U+0399">> >>, <<"U+1F92", <<"U+1F2A","U+0399">> >>,
    <<"U+1F93", <<"U+1F2B","U+0399">> >>, <<"U+1F94", <<"U+1F2C","U+0399">> >>,
    <<"U+1F95", <<"U+1F2D","U+0399">> >>, <<"U+1F96", <<"U+1F2E","U+0399">> >>,
    <<"U+1F97", <<"U+1F2F","U+0399">> >>, <<"U+1F98", <<"U+1F28","U+0399">> >>,
    <<"U+1F99", <<"U+1F29","U+0399">> >>, <<"U+1F9A", <<"U+1F2A","U+0399">> >>,
    <<"U+1F9B", <<"U+1F2B","U+0399">> >>, <<"U+1F9C", <<"U+1F2C","U+0399">> >>,
    <<"U+1F9D", <<"U+1F2D","U+0399">> >>, <<"U+1F9E", <<"U+1F2E","U+0399">> >>,
    <<"U+1F9F", <<"U+1F2F","U+0399">> >>, <<"U+1FA0", <<"U+1F68","U+0399">> >>,
    <<"U+1FA1", <<"U+1F69","U+0399">> >>, <<"U+1FA2", <<"U+1F6A","U+0399">> >>,
    <<"U+1FA3", <<"U+1F6B","U+0399">> >>, <<"U+1FA4", <<"U+1F6C","U+0399">> >>,
    <<"U+1FA5", <<"U+1F6D","U+0399">> >>, <<"U+1FA6", <<"U+1F6E","U+0399">> >>,
    <<"U+1FA7", <<"U+1F6F","U+0399">> >>, <<"U+1FA8", <<"U+1F68","U+0399">> >>,
    <<"U+1FA9", <<"U+1F69","U+0399">> >>, <<"U+1FAA", <<"U+1F6A","U+0399">> >>,
    <<"U+1FAB", <<"U+1F6B","U+0399">> >>, <<"U+1FAC", <<"U+1F6C","U+0399">> >>,
    <<"U+1FAD", <<"U+1F6D","U+0399">> >>, <<"U+1FAE", <<"U+1F6E","U+0399">> >>,
    <<"U+1FAF", <<"U+1F6F","U+0399">> >>, <<"U+1FB0", <<"U+1FB8">> >>,
    <<"U+1FB1", <<"U+1FB9">> >>, <<"U+1FB2", <<"U+1FBA","U+0399">> >>,
    <<"U+1FB3", <<"U+0391","U+0399">> >>, <<"U+1FB4", <<"U+0386","U+0399">> >>,
    <<"U+1FB6", <<"U+0391","U+0342">> >>, <<"U+1FB7", <<"U+0391","U+0342","U+0399">> >>,
    <<"U+1FBC", <<"U+0391","U+0399">> >>, <<"U+1FBE", <<"U+0399">> >>,
    <<"U+1FC2", <<"U+1FCA","U+0399">> >>, <<"U+1FC3", <<"U+0397","U+0399">> >>,
    <<"U+1FC4", <<"U+0389","U+0399">> >>, <<"U+1FC6", <<"U+0397","U+0342">> >>,
    <<"U+1FC7", <<"U+0397","U+0342","U+0399">> >>, <<"U+1FCC", <<"U+0397","U+0399">> >>,
    <<"U+1FD0", <<"U+1FD8">> >>, <<"U+1FD1", <<"U+1FD9">> >>,
    <<"U+1FD2", <<"U+0399","U+0308","U+0300">> >>, <<"U+1FD3", <<"U+0399","U+0308","U+0301">> >>,
    <<"U+1FD6", <<"U+0399","U+0342">> >>, <<"U+1FD7", <<"U+0399","U+0308","U+0342">> >>,
    <<"U+1FE0", <<"U+1FE8">> >>, <<"U+1FE1", <<"U+1FE9">> >>,
    <<"U+1FE2", <<"U+03A5","U+0308","U+0300">> >>, <<"U+1FE3", <<"U+03A5","U+0308","U+0301">> >>,
    <<"U+1FE4", <<"U+03A1","U+0313">> >>, <<"U+1FE5", <<"U+1FEC">> >>,
    <<"U+1FE6", <<"U+03A5","U+0342">> >>, <<"U+1FE7", <<"U+03A5","U+0308","U+0342">> >>,
    <<"U+1FF2", <<"U+1FFA","U+0399">> >>, <<"U+1FF3", <<"U+03A9","U+0399">> >>,
    <<"U+1FF4", <<"U+038F","U+0399">> >>, <<"U+1FF6", <<"U+03A9","U+0342">> >>,
    <<"U+1FF7", <<"U+03A9","U+0342","U+0399">> >>, <<"U+1FFC", <<"U+03A9","U+0399">> >>,
    <<"U+214E", <<"U+2132">> >>, <<"U+2170", <<"U+2160">> >>, <<"U+2171", <<"U+2161">> >>,
    <<"U+2172", <<"U+2162">> >>, <<"U+2173", <<"U+2163">> >>, <<"U+2174", <<"U+2164">> >>,
    <<"U+2175", <<"U+2165">> >>, <<"U+2176", <<"U+2166">> >>, <<"U+2177", <<"U+2167">> >>,
    <<"U+2178", <<"U+2168">> >>, <<"U+2179", <<"U+2169">> >>, <<"U+217A", <<"U+216A">> >>,
    <<"U+217B", <<"U+216B">> >>, <<"U+217C", <<"U+216C">> >>, <<"U+217D", <<"U+216D">> >>,
    <<"U+217E", <<"U+216E">> >>, <<"U+217F", <<"U+216F">> >>, <<"U+2184", <<"U+2183">> >>,
    <<"U+24D0", <<"U+24B6">> >>, <<"U+24D1", <<"U+24B7">> >>, <<"U+24D2", <<"U+24B8">> >>,
    <<"U+24D3", <<"U+24B9">> >>, <<"U+24D4", <<"U+24BA">> >>, <<"U+24D5", <<"U+24BB">> >>,
    <<"U+24D6", <<"U+24BC">> >>, <<"U+24D7", <<"U+24BD">> >>, <<"U+24D8", <<"U+24BE">> >>,
    <<"U+24D9", <<"U+24BF">> >>, <<"U+24DA", <<"U+24C0">> >>, <<"U+24DB", <<"U+24C1">> >>,
    <<"U+24DC", <<"U+24C2">> >>, <<"U+24DD", <<"U+24C3">> >>, <<"U+24DE", <<"U+24C4">> >>,
    <<"U+24DF", <<"U+24C5">> >>, <<"U+24E0", <<"U+24C6">> >>, <<"U+24E1", <<"U+24C7">> >>,
    <<"U+24E2", <<"U+24C8">> >>, <<"U+24E3", <<"U+24C9">> >>, <<"U+24E4", <<"U+24CA">> >>,
    <<"U+24E5", <<"U+24CB">> >>, <<"U+24E6", <<"U+24CC">> >>, <<"U+24E7", <<"U+24CD">> >>,
    <<"U+24E8", <<"U+24CE">> >>, <<"U+24E9", <<"U+24CF">> >>, <<"U+2C30", <<"U+2C00">> >>,
    <<"U+2C31", <<"U+2C01">> >>, <<"U+2C32", <<"U+2C02">> >>, <<"U+2C33", <<"U+2C03">> >>,
    <<"U+2C34", <<"U+2C04">> >>, <<"U+2C35", <<"U+2C05">> >>, <<"U+2C36", <<"U+2C06">> >>,
    <<"U+2C37", <<"U+2C07">> >>, <<"U+2C38", <<"U+2C08">> >>, <<"U+2C39", <<"U+2C09">> >>,
    <<"U+2C3A", <<"U+2C0A">> >>, <<"U+2C3B", <<"U+2C0B">> >>, <<"U+2C3C", <<"U+2C0C">> >>,
    <<"U+2C3D", <<"U+2C0D">> >>, <<"U+2C3E", <<"U+2C0E">> >>, <<"U+2C3F", <<"U+2C0F">> >>,
    <<"U+2C40", <<"U+2C10">> >>, <<"U+2C41", <<"U+2C11">> >>, <<"U+2C42", <<"U+2C12">> >>,
    <<"U+2C43", <<"U+2C13">> >>, <<"U+2C44", <<"U+2C14">> >>, <<"U+2C45", <<"U+2C15">> >>,
    <<"U+2C46", <<"U+2C16">> >>, <<"U+2C47", <<"U+2C17">> >>, <<"U+2C48", <<"U+2C18">> >>,
    <<"U+2C49", <<"U+2C19">> >>, <<"U+2C4A", <<"U+2C1A">> >>, <<"U+2C4B", <<"U+2C1B">> >>,
    <<"U+2C4C", <<"U+2C1C">> >>, <<"U+2C4D", <<"U+2C1D">> >>, <<"U+2C4E", <<"U+2C1E">> >>,
    <<"U+2C4F", <<"U+2C1F">> >>, <<"U+2C50", <<"U+2C20">> >>, <<"U+2C51", <<"U+2C21">> >>,
    <<"U+2C52", <<"U+2C22">> >>, <<"U+2C53", <<"U+2C23">> >>, <<"U+2C54", <<"U+2C24">> >>,
    <<"U+2C55", <<"U+2C25">> >>, <<"U+2C56", <<"U+2C26">> >>, <<"U+2C57", <<"U+2C27">> >>,
    <<"U+2C58", <<"U+2C28">> >>, <<"U+2C59", <<"U+2C29">> >>, <<"U+2C5A", <<"U+2C2A">> >>,
    <<"U+2C5B", <<"U+2C2B">> >>, <<"U+2C5C", <<"U+2C2C">> >>, <<"U+2C5D", <<"U+2C2D">> >>,
    <<"U+2C5E", <<"U+2C2E">> >>, <<"U+2C5F", <<"U+2C2F">> >>, <<"U+2C61", <<"U+2C60">> >>,
    <<"U+2C65", <<"U+023A">> >>, <<"U+2C66", <<"U+023E">> >>, <<"U+2C68", <<"U+2C67">> >>,
    <<"U+2C6A", <<"U+2C69">> >>, <<"U+2C6C", <<"U+2C6B">> >>, <<"U+2C73", <<"U+2C72">> >>,
    <<"U+2C76", <<"U+2C75">> >>, <<"U+2C81", <<"U+2C80">> >>, <<"U+2C83", <<"U+2C82">> >>,
    <<"U+2C85", <<"U+2C84">> >>, <<"U+2C87", <<"U+2C86">> >>, <<"U+2C89", <<"U+2C88">> >>,
    <<"U+2C8B", <<"U+2C8A">> >>, <<"U+2C8D", <<"U+2C8C">> >>, <<"U+2C8F", <<"U+2C8E">> >>,
    <<"U+2C91", <<"U+2C90">> >>, <<"U+2C93", <<"U+2C92">> >>, <<"U+2C95", <<"U+2C94">> >>,
    <<"U+2C97", <<"U+2C96">> >>, <<"U+2C99", <<"U+2C98">> >>, <<"U+2C9B", <<"U+2C9A">> >>,
    <<"U+2C9D", <<"U+2C9C">> >>, <<"U+2C9F", <<"U+2C9E">> >>, <<"U+2CA1", <<"U+2CA0">> >>,
    <<"U+2CA3", <<"U+2CA2">> >>, <<"U+2CA5", <<"U+2CA4">> >>, <<"U+2CA7", <<"U+2CA6">> >>,
    <<"U+2CA9", <<"U+2CA8">> >>, <<"U+2CAB", <<"U+2CAA">> >>, <<"U+2CAD", <<"U+2CAC">> >>,
    <<"U+2CAF", <<"U+2CAE">> >>, <<"U+2CB1", <<"U+2CB0">> >>, <<"U+2CB3", <<"U+2CB2">> >>,
    <<"U+2CB5", <<"U+2CB4">> >>, <<"U+2CB7", <<"U+2CB6">> >>, <<"U+2CB9", <<"U+2CB8">> >>,
    <<"U+2CBB", <<"U+2CBA">> >>, <<"U+2CBD", <<"U+2CBC">> >>, <<"U+2CBF", <<"U+2CBE">> >>,
    <<"U+2CC1", <<"U+2CC0">> >>, <<"U+2CC3", <<"U+2CC2">> >>, <<"U+2CC5", <<"U+2CC4">> >>,
    <<"U+2CC7", <<"U+2CC6">> >>, <<"U+2CC9", <<"U+2CC8">> >>, <<"U+2CCB", <<"U+2CCA">> >>,
    <<"U+2CCD", <<"U+2CCC">> >>, <<"U+2CCF", <<"U+2CCE">> >>, <<"U+2CD1", <<"U+2CD0">> >>,
    <<"U+2CD3", <<"U+2CD2">> >>, <<"U+2CD5", <<"U+2CD4">> >>, <<"U+2CD7", <<"U+2CD6">> >>,
    <<"U+2CD9", <<"U+2CD8">> >>, <<"U+2CDB", <<"U+2CDA">> >>, <<"U+2CDD", <<"U+2CDC">> >>,
    <<"U+2CDF", <<"U+2CDE">> >>, <<"U+2CE1", <<"U+2CE0">> >>, <<"U+2CE3", <<"U+2CE2">> >>,
    <<"U+2CEC", <<"U+2CEB">> >>, <<"U+2CEE", <<"U+2CED">> >>, <<"U+2CF3", <<"U+2CF2">> >>,
    <<"U+2D00", <<"U+10A0">> >>, <<"U+2D01", <<"U+10A1">> >>, <<"U+2D02", <<"U+10A2">> >>,
    <<"U+2D03", <<"U+10A3">> >>, <<"U+2D04", <<"U+10A4">> >>, <<"U+2D05", <<"U+10A5">> >>,
    <<"U+2D06", <<"U+10A6">> >>, <<"U+2D07", <<"U+10A7">> >>, <<"U+2D08", <<"U+10A8">> >>,
    <<"U+2D09", <<"U+10A9">> >>, <<"U+2D0A", <<"U+10AA">> >>, <<"U+2D0B", <<"U+10AB">> >>,
    <<"U+2D0C", <<"U+10AC">> >>, <<"U+2D0D", <<"U+10AD">> >>, <<"U+2D0E", <<"U+10AE">> >>,
    <<"U+2D0F", <<"U+10AF">> >>, <<"U+2D10", <<"U+10B0">> >>, <<"U+2D11", <<"U+10B1">> >>,
    <<"U+2D12", <<"U+10B2">> >>, <<"U+2D13", <<"U+10B3">> >>, <<"U+2D14", <<"U+10B4">> >>,
    <<"U+2D15", <<"U+10B5">> >>, <<"U+2D16", <<"U+10B6">> >>, <<"U+2D17", <<"U+10B7">> >>,
    <<"U+2D18", <<"U+10B8">> >>, <<"U+2D19", <<"U+10B9">> >>, <<"U+2D1A", <<"U+10BA">> >>,
    <<"U+2D1B", <<"U+10BB">> >>, <<"U+2D1C", <<"U+10BC">> >>, <<"U+2D1D", <<"U+10BD">> >>,
    <<"U+2D1E", <<"U+10BE">> >>, <<"U+2D1F", <<"U+10BF">> >>, <<"U+2D20", <<"U+10C0">> >>,
    <<"U+2D21", <<"U+10C1">> >>, <<"U+2D22", <<"U+10C2">> >>, <<"U+2D23", <<"U+10C3">> >>,
    <<"U+2D24", <<"U+10C4">> >>, <<"U+2D25", <<"U+10C5">> >>, <<"U+2D27", <<"U+10C7">> >>,
    <<"U+2D2D", <<"U+10CD">> >>, <<"U+A641", <<"U+A640">> >>, <<"U+A643", <<"U+A642">> >>,
    <<"U+A645", <<"U+A644">> >>, <<"U+A647", <<"U+A646">> >>, <<"U+A649", <<"U+A648">> >>,
    <<"U+A64B", <<"U+A64A">> >>, <<"U+A64D", <<"U+A64C">> >>, <<"U+A64F", <<"U+A64E">> >>,
    <<"U+A651", <<"U+A650">> >>, <<"U+A653", <<"U+A652">> >>, <<"U+A655", <<"U+A654">> >>,
    <<"U+A657", <<"U+A656">> >>, <<"U+A659", <<"U+A658">> >>, <<"U+A65B", <<"U+A65A">> >>,
    <<"U+A65D", <<"U+A65C">> >>, <<"U+A65F", <<"U+A65E">> >>, <<"U+A661", <<"U+A660">> >>,
    <<"U+A663", <<"U+A662">> >>, <<"U+A665", <<"U+A664">> >>, <<"U+A667", <<"U+A666">> >>,
    <<"U+A669", <<"U+A668">> >>, <<"U+A66B", <<"U+A66A">> >>, <<"U+A66D", <<"U+A66C">> >>,
    <<"U+A681", <<"U+A680">> >>, <<"U+A683", <<"U+A682">> >>, <<"U+A685", <<"U+A684">> >>,
    <<"U+A687", <<"U+A686">> >>, <<"U+A689", <<"U+A688">> >>, <<"U+A68B", <<"U+A68A">> >>,
    <<"U+A68D", <<"U+A68C">> >>, <<"U+A68F", <<"U+A68E">> >>, <<"U+A691", <<"U+A690">> >>,
    <<"U+A693", <<"U+A692">> >>, <<"U+A695", <<"U+A694">> >>, <<"U+A697", <<"U+A696">> >>,
    <<"U+A699", <<"U+A698">> >>, <<"U+A69B", <<"U+A69A">> >>, <<"U+A723", <<"U+A722">> >>,
    <<"U+A725", <<"U+A724">> >>, <<"U+A727", <<"U+A726">> >>, <<"U+A729", <<"U+A728">> >>,
    <<"U+A72B", <<"U+A72A">> >>, <<"U+A72D", <<"U+A72C">> >>, <<"U+A72F", <<"U+A72E">> >>,
    <<"U+A733", <<"U+A732">> >>, <<"U+A735", <<"U+A734">> >>, <<"U+A737", <<"U+A736">> >>,
    <<"U+A739", <<"U+A738">> >>, <<"U+A73B", <<"U+A73A">> >>, <<"U+A73D", <<"U+A73C">> >>,
    <<"U+A73F", <<"U+A73E">> >>, <<"U+A741", <<"U+A740">> >>, <<"U+A743", <<"U+A742">> >>,
    <<"U+A745", <<"U+A744">> >>, <<"U+A747", <<"U+A746">> >>, <<"U+A749", <<"U+A748">> >>,
    <<"U+A74B", <<"U+A74A">> >>, <<"U+A74D", <<"U+A74C">> >>, <<"U+A74F", <<"U+A74E">> >>,
    <<"U+A751", <<"U+A750">> >>, <<"U+A753", <<"U+A752">> >>, <<"U+A755", <<"U+A754">> >>,
    <<"U+A757", <<"U+A756">> >>, <<"U+A759", <<"U+A758">> >>, <<"U+A75B", <<"U+A75A">> >>,
    <<"U+A75D", <<"U+A75C">> >>, <<"U+A75F", <<"U+A75E">> >>, <<"U+A761", <<"U+A760">> >>,
    <<"U+A763", <<"U+A762">> >>, <<"U+A765", <<"U+A764">> >>, <<"U+A767", <<"U+A766">> >>,
    <<"U+A769", <<"U+A768">> >>, <<"U+A76B", <<"U+A76A">> >>, <<"U+A76D", <<"U+A76C">> >>,
    <<"U+A76F", <<"U+A76E">> >>, <<"U+A77A", <<"U+A779">> >>, <<"U+A77C", <<"U+A77B">> >>,
    <<"U+A77F", <<"U+A77E">> >>, <<"U+A781", <<"U+A780">> >>, <<"U+A783", <<"U+A782">> >>,
    <<"U+A785", <<"U+A784">> >>, <<"U+A787", <<"U+A786">> >>, <<"U+A78C", <<"U+A78B">> >>,
    <<"U+A791", <<"U+A790">> >>, <<"U+A793", <<"U+A792">> >>, <<"U+A794", <<"U+A7C4">> >>,
    <<"U+A797", <<"U+A796">> >>, <<"U+A799", <<"U+A798">> >>, <<"U+A79B", <<"U+A79A">> >>,
    <<"U+A79D", <<"U+A79C">> >>, <<"U+A79F", <<"U+A79E">> >>, <<"U+A7A1", <<"U+A7A0">> >>,
    <<"U+A7A3", <<"U+A7A2">> >>, <<"U+A7A5", <<"U+A7A4">> >>, <<"U+A7A7", <<"U+A7A6">> >>,
    <<"U+A7A9", <<"U+A7A8">> >>, <<"U+A7B5", <<"U+A7B4">> >>, <<"U+A7B7", <<"U+A7B6">> >>,
    <<"U+A7B9", <<"U+A7B8">> >>, <<"U+A7BB", <<"U+A7BA">> >>, <<"U+A7BD", <<"U+A7BC">> >>,
    <<"U+A7BF", <<"U+A7BE">> >>, <<"U+A7C1", <<"U+A7C0">> >>, <<"U+A7C3", <<"U+A7C2">> >>,
    <<"U+A7C8", <<"U+A7C7">> >>, <<"U+A7CA", <<"U+A7C9">> >>, <<"U+A7D1", <<"U+A7D0">> >>,
    <<"U+A7D7", <<"U+A7D6">> >>, <<"U+A7D9", <<"U+A7D8">> >>, <<"U+A7F6", <<"U+A7F5">> >>,
    <<"U+AB53", <<"U+A7B3">> >>, <<"U+AB70", <<"U+13A0">> >>, <<"U+AB71", <<"U+13A1">> >>,
    <<"U+AB72", <<"U+13A2">> >>, <<"U+AB73", <<"U+13A3">> >>, <<"U+AB74", <<"U+13A4">> >>,
    <<"U+AB75", <<"U+13A5">> >>, <<"U+AB76", <<"U+13A6">> >>, <<"U+AB77", <<"U+13A7">> >>,
    <<"U+AB78", <<"U+13A8">> >>, <<"U+AB79", <<"U+13A9">> >>, <<"U+AB7A", <<"U+13AA">> >>,
    <<"U+AB7B", <<"U+13AB">> >>, <<"U+AB7C", <<"U+13AC">> >>, <<"U+AB7D", <<"U+13AD">> >>,
    <<"U+AB7E", <<"U+13AE">> >>, <<"U+AB7F", <<"U+13AF">> >>, <<"U+AB80", <<"U+13B0">> >>,
    <<"U+AB81", <<"U+13B1">> >>, <<"U+AB82", <<"U+13B2">> >>, <<"U+AB83", <<"U+13B3">> >>,
    <<"U+AB84", <<"U+13B4">> >>, <<"U+AB85", <<"U+13B5">> >>, <<"U+AB86", <<"U+13B6">> >>,
    <<"U+AB87", <<"U+13B7">> >>, <<"U+AB88", <<"U+13B8">> >>, <<"U+AB89", <<"U+13B9">> >>,
    <<"U+AB8A", <<"U+13BA">> >>, <<"U+AB8B", <<"U+13BB">> >>, <<"U+AB8C", <<"U+13BC">> >>,
    <<"U+AB8D", <<"U+13BD">> >>, <<"U+AB8E", <<"U+13BE">> >>, <<"U+AB8F", <<"U+13BF">> >>,
    <<"U+AB90", <<"U+13C0">> >>, <<"U+AB91", <<"U+13C1">> >>, <<"U+AB92", <<"U+13C2">> >>,
    <<"U+AB93", <<"U+13C3">> >>, <<"U+AB94", <<"U+13C4">> >>, <<"U+AB95", <<"U+13C5">> >>,
    <<"U+AB96", <<"U+13C6">> >>, <<"U+AB97", <<"U+13C7">> >>, <<"U+AB98", <<"U+13C8">> >>,
    <<"U+AB99", <<"U+13C9">> >>, <<"U+AB9A", <<"U+13CA">> >>, <<"U+AB9B", <<"U+13CB">> >>,
    <<"U+AB9C", <<"U+13CC">> >>, <<"U+AB9D", <<"U+13CD">> >>, <<"U+AB9E", <<"U+13CE">> >>,
    <<"U+AB9F", <<"U+13CF">> >>, <<"U+ABA0", <<"U+13D0">> >>, <<"U+ABA1", <<"U+13D1">> >>,
    <<"U+ABA2", <<"U+13D2">> >>, <<"U+ABA3", <<"U+13D3">> >>, <<"U+ABA4", <<"U+13D4">> >>,
    <<"U+ABA5", <<"U+13D5">> >>, <<"U+ABA6", <<"U+13D6">> >>, <<"U+ABA7", <<"U+13D7">> >>,
    <<"U+ABA8", <<"U+13D8">> >>, <<"U+ABA9", <<"U+13D9">> >>, <<"U+ABAA", <<"U+13DA">> >>,
    <<"U+ABAB", <<"U+13DB">> >>, <<"U+ABAC", <<"U+13DC">> >>, <<"U+ABAD", <<"U+13DD">> >>,
    <<"U+ABAE", <<"U+13DE">> >>, <<"U+ABAF", <<"U+13DF">> >>, <<"U+ABB0", <<"U+13E0">> >>,
    <<"U+ABB1", <<"U+13E1">> >>, <<"U+ABB2", <<"U+13E2">> >>, <<"U+ABB3", <<"U+13E3">> >>,
    <<"U+ABB4", <<"U+13E4">> >>, <<"U+ABB5", <<"U+13E5">> >>, <<"U+ABB6", <<"U+13E6">> >>,
    <<"U+ABB7", <<"U+13E7">> >>, <<"U+ABB8", <<"U+13E8">> >>, <<"U+ABB9", <<"U+13E9">> >>,
    <<"U+ABBA", <<"U+13EA">> >>, <<"U+ABBB", <<"U+13EB">> >>, <<"U+ABBC", <<"U+13EC">> >>,
    <<"U+ABBD", <<"U+13ED">> >>, <<"U+ABBE", <<"U+13EE">> >>, <<"U+ABBF", <<"U+13EF">> >>,
    <<"U+FB00", <<"F","F">> >>, <<"U+FB01", <<"F","I">> >>, <<"U+FB02", <<"F","L">> >>,
    <<"U+FB03", <<"F","F","I">> >>, <<"U+FB04", <<"F","F","L">> >>, <<"U+FB05", <<"S","T">> >>,
    <<"U+FB06", <<"S","T">> >>, <<"U+FB13", <<"U+0544","U+0546">> >>,
    <<"U+FB14", <<"U+0544","U+0535">> >>, <<"U+FB15", <<"U+0544","U+053B">> >>,
    <<"U+FB16", <<"U+054E","U+0546">> >>, <<"U+FB17", <<"U+0544","U+053D">> >>,
    <<"U+FF41", <<"U+FF21">> >>, <<"U+FF42", <<"U+FF22">> >>, <<"U+FF43", <<"U+FF23">> >>,
    <<"U+FF44", <<"U+FF24">> >>, <<"U+FF45", <<"U+FF25">> >>, <<"U+FF46", <<"U+FF26">> >>,
    <<"U+FF47", <<"U+FF27">> >>, <<"U+FF48", <<"U+FF28">> >>, <<"U+FF49", <<"U+FF29">> >>,
    <<"U+FF4A", <<"U+FF2A">> >>, <<"U+FF4B", <<"U+FF2B">> >>, <<"U+FF4C", <<"U+FF2C">> >>,
    <<"U+FF4D", <<"U+FF2D">> >>, <<"U+FF4E", <<"U+FF2E">> >>, <<"U+FF4F", <<"U+FF2F">> >>,
    <<"U+FF50", <<"U+FF30">> >>, <<"U+FF51", <<"U+FF31">> >>, <<"U+FF52", <<"U+FF32">> >>,
    <<"U+FF53", <<"U+FF33">> >>, <<"U+FF54", <<"U+FF34">> >>, <<"U+FF55", <<"U+FF35">> >>,
    <<"U+FF56", <<"U+FF36">> >>, <<"U+FF57", <<"U+FF37">> >>, <<"U+FF58", <<"U+FF38">> >>,
    <<"U+FF59", <<"U+FF39">> >>, <<"U+FF5A", <<"U+FF3A">> >>, <<"U+10428", <<"U+10400">> >>,
    <<"U+10429", <<"U+10401">> >>, <<"U+1042A", <<"U+10402">> >>, <<"U+1042B", <<"U+10403">> >>,
    <<"U+1042C", <<"U+10404">> >>, <<"U+1042D", <<"U+10405">> >>, <<"U+1042E", <<"U+10406">> >>,
    <<"U+1042F", <<"U+10407">> >>, <<"U+10430", <<"U+10408">> >>, <<"U+10431", <<"U+10409">> >>,
    <<"U+10432", <<"U+1040A">> >>, <<"U+10433", <<"U+1040B">> >>, <<"U+10434", <<"U+1040C">> >>,
    <<"U+10435", <<"U+1040D">> >>, <<"U+10436", <<"U+1040E">> >>, <<"U+10437", <<"U+1040F">> >>,
    <<"U+10438", <<"U+10410">> >>, <<"U+10439", <<"U+10411">> >>, <<"U+1043A", <<"U+10412">> >>,
    <<"U+1043B", <<"U+10413">> >>, <<"U+1043C", <<"U+10414">> >>, <<"U+1043D", <<"U+10415">> >>,
    <<"U+1043E", <<"U+10416">> >>, <<"U+1043F", <<"U+10417">> >>, <<"U+10440", <<"U+10418">> >>,
    <<"U+10441", <<"U+10419">> >>, <<"U+10442", <<"U+1041A">> >>, <<"U+10443", <<"U+1041B">> >>,
    <<"U+10444", <<"U+1041C">> >>, <<"U+10445", <<"U+1041D">> >>, <<"U+10446", <<"U+1041E">> >>,
    <<"U+10447", <<"U+1041F">> >>, <<"U+10448", <<"U+10420">> >>, <<"U+10449", <<"U+10421">> >>,
    <<"U+1044A", <<"U+10422">> >>, <<"U+1044B", <<"U+10423">> >>, <<"U+1044C", <<"U+10424">> >>,
    <<"U+1044D", <<"U+10425">> >>, <<"U+1044E", <<"U+10426">> >>, <<"U+1044F", <<"U+10427">> >>,
    <<"U+104D8", <<"U+104B0">> >>, <<"U+104D9", <<"U+104B1">> >>, <<"U+104DA", <<"U+104B2">> >>,
    <<"U+104DB", <<"U+104B3">> >>, <<"U+104DC", <<"U+104B4">> >>, <<"U+104DD", <<"U+104B5">> >>,
    <<"U+104DE", <<"U+104B6">> >>, <<"U+104DF", <<"U+104B7">> >>, <<"U+104E0", <<"U+104B8">> >>,
    <<"U+104E1", <<"U+104B9">> >>, <<"U+104E2", <<"U+104BA">> >>, <<"U+104E3", <<"U+104BB">> >>,
    <<"U+104E4", <<"U+104BC">> >>, <<"U+104E5", <<"U+104BD">> >>, <<"U+104E6", <<"U+104BE">> >>,
    <<"U+104E7", <<"U+104BF">> >>, <<"U+104E8", <<"U+104C0">> >>, <<"U+104E9", <<"U+104C1">> >>,
    <<"U+104EA", <<"U+104C2">> >>, <<"U+104EB", <<"U+104C3">> >>, <<"U+104EC", <<"U+104C4">> >>,
    <<"U+104ED", <<"U+104C5">> >>, <<"U+104EE", <<"U+104C6">> >>, <<"U+104EF", <<"U+104C7">> >>,
    <<"U+104F0", <<"U+104C8">> >>, <<"U+104F1", <<"U+104C9">> >>, <<"U+104F2", <<"U+104CA">> >>,
    <<"U+104F3", <<"U+104CB">> >>, <<"U+104F4", <<"U+104CC">> >>, <<"U+104F5", <<"U+104CD">> >>,
    <<"U+104F6", <<"U+104CE">> >>, <<"U+104F7", <<"U+104CF">> >>, <<"U+104F8", <<"U+104D0">> >>,
    <<"U+104F9", <<"U+104D1">> >>, <<"U+104FA", <<"U+104D2">> >>, <<"U+104FB", <<"U+104D3">> >>,
    <<"U+10597", <<"U+10570">> >>, <<"U+10598", <<"U+10571">> >>, <<"U+10599", <<"U+10572">> >>,
    <<"U+1059A", <<"U+10573">> >>, <<"U+1059B", <<"U+10574">> >>, <<"U+1059C", <<"U+10575">> >>,
    <<"U+1059D", <<"U+10576">> >>, <<"U+1059E", <<"U+10577">> >>, <<"U+1059F", <<"U+10578">> >>,
    <<"U+105A0", <<"U+10579">> >>, <<"U+105A1", <<"U+1057A">> >>, <<"U+105A3", <<"U+1057C">> >>,
    <<"U+105A4", <<"U+1057D">> >>, <<"U+105A5", <<"U+1057E">> >>, <<"U+105A6", <<"U+1057F">> >>,
    <<"U+105A7", <<"U+10580">> >>, <<"U+105A8", <<"U+10581">> >>, <<"U+105A9", <<"U+10582">> >>,
    <<"U+105AA", <<"U+10583">> >>, <<"U+105AB", <<"U+10584">> >>, <<"U+105AC", <<"U+10585">> >>,
    <<"U+105AD", <<"U+10586">> >>, <<"U+105AE", <<"U+10587">> >>, <<"U+105AF", <<"U+10588">> >>,
    <<"U+105B0", <<"U+10589">> >>, <<"U+105B1", <<"U+1058A">> >>, <<"U+105B3", <<"U+1058C">> >>,
    <<"U+105B4", <<"U+1058D">> >>, <<"U+105B5", <<"U+1058E">> >>, <<"U+105B6", <<"U+1058F">> >>,
    <<"U+105B7", <<"U+10590">> >>, <<"U+105B8", <<"U+10591">> >>, <<"U+105B9", <<"U+10592">> >>,
    <<"U+105BB", <<"U+10594">> >>, <<"U+105BC", <<"U+10595">> >>, <<"U+10CC0", <<"U+10C80">> >>,
    <<"U+10CC1", <<"U+10C81">> >>, <<"U+10CC2", <<"U+10C82">> >>, <<"U+10CC3", <<"U+10C83">> >>,
    <<"U+10CC4", <<"U+10C84">> >>, <<"U+10CC5", <<"U+10C85">> >>, <<"U+10CC6", <<"U+10C86">> >>,
    <<"U+10CC7", <<"U+10C87">> >>, <<"U+10CC8", <<"U+10C88">> >>, <<"U+10CC9", <<"U+10C89">> >>,
    <<"U+10CCA", <<"U+10C8A">> >>, <<"U+10CCB", <<"U+10C8B">> >>, <<"U+10CCC", <<"U+10C8C">> >>,
    <<"U+10CCD", <<"U+10C8D">> >>, <<"U+10CCE", <<"U+10C8E">> >>, <<"U+10CCF", <<"U+10C8F">> >>,
    <<"U+10CD0", <<"U+10C90">> >>, <<"U+10CD1", <<"U+10C91">> >>, <<"U+10CD2", <<"U+10C92">> >>,
    <<"U+10CD3", <<"U+10C93">> >>, <<"U+10CD4", <<"U+10C94">> >>, <<"U+10CD5", <<"U+10C95">> >>,
    <<"U+10CD6", <<"U+10C96">> >>, <<"U+10CD7", <<"U+10C97">> >>, <<"U+10CD8", <<"U+10C98">> >>,
    <<"U+10CD9", <<"U+10C99">> >>, <<"U+10CDA", <<"U+10C9A">> >>, <<"U+10CDB", <<"U+10C9B">> >>,
    <<"U+10CDC", <<"U+10C9C">> >>, <<"U+10CDD", <<"U+10C9D">> >>, <<"U+10CDE", <<"U+10C9E">> >>,
    <<"U+10CDF", <<"U+10C9F">> >>, <<"U+10CE0", <<"U+10CA0">> >>, <<"U+10CE1", <<"U+10CA1">> >>,
    <<"U+10CE2", <<"U+10CA2">> >>, <<"U+10CE3", <<"U+10CA3">> >>, <<"U+10CE4", <<"U+10CA4">> >>,
    <<"U+10CE5", <<"U+10CA5">> >>, <<"U+10CE6", <<"U+10CA6">> >>, <<"U+10CE7", <<"U+10CA7">> >>,
    <<"U+10CE8", <<"U+10CA8">> >>, <<"U+10CE9", <<"U+10CA9">> >>, <<"U+10CEA", <<"U+10CAA">> >>,
    <<"U+10CEB", <<"U+10CAB">> >>, <<"U+10CEC", <<"U+10CAC">> >>, <<"U+10CED", <<"U+10CAD">> >>,
    <<"U+10CEE", <<"U+10CAE">> >>, <<"U+10CEF", <<"U+10CAF">> >>, <<"U+10CF0", <<"U+10CB0">> >>,
    <<"U+10CF1", <<"U+10CB1">> >>, <<"U+10CF2", <<"U+10CB2">> >>, <<"U+118C0", <<"U+118A0">> >>,
    <<"U+118C1", <<"U+118A1">> >>, <<"U+118C2", <<"U+118A2">> >>, <<"U+118C3", <<"U+118A3">> >>,
    <<"U+118C4", <<"U+118A4">> >>, <<"U+118C5", <<"U+118A5">> >>, <<"U+118C6", <<"U+118A6">> >>,
    <<"U+118C7", <<"U+118A7">> >>, <<"U+118C8", <<"U+118A8">> >>, <<"U+118C9", <<"U+118A9">> >>,
    <<"U+118CA", <<"U+118AA">> >>, <<"U+118CB", <<"U+118AB">> >>, <<"U+118CC", <<"U+118AC">> >>,
    <<"U+118CD", <<"U+118AD">> >>, <<"U+118CE", <<"U+118AE">> >>, <<"U+118CF", <<"U+118AF">> >>,
    <<"U+118D0", <<"U+118B0">> >>, <<"U+118D1", <<"U+118B1">> >>, <<"U+118D2", <<"U+118B2">> >>,
    <<"U+118D3", <<"U+118B3">> >>, <<"U+118D4", <<"U+118B4">> >>, <<"U+118D5", <<"U+118B5">> >>,
    <<"U+118D6", <<"U+118B6">> >>, <<"U+118D7", <<"U+118B7">> >>, <<"U+118D8", <<"U+118B8">> >>,
    <<"U+118D9", <<"U+118B9">> >>, <<"U+118DA", <<"U+118BA">> >>, <<"U+118DB", <<"U+118BB">> >>,
    <<"U+118DC", <<"U+118BC">> >>, <<"U+118DD", <<"U+118BD">> >>, <<"U+118DE", <<"U+118BE">> >>,
    <<"U+118DF", <<"U+118BF">> >>, <<"U+16E60", <<"U+16E40">> >>, <<"U+16E61", <<"U+16E41">> >>,
    <<"U+16E62", <<"U+16E42">> >>, <<"U+16E63", <<"U+16E43">> >>, <<"U+16E64", <<"U+16E44">> >>,
    <<"U+16E65", <<"U+16E45">> >>, <<"U+16E66", <<"U+16E46">> >>, <<"U+16E67", <<"U+16E47">> >>,
    <<"U+16E68", <<"U+16E48">> >>, <<"U+16E69", <<"U+16E49">> >>, <<"U+16E6A", <<"U+16E4A">> >>,
    <<"U+16E6B", <<"U+16E4B">> >>, <<"U+16E6C", <<"U+16E4C">> >>, <<"U+16E6D", <<"U+16E4D">> >>,
    <<"U+16E6E", <<"U+16E4E">> >>, <<"U+16E6F", <<"U+16E4F">> >>, <<"U+16E70", <<"U+16E50">> >>,
    <<"U+16E71", <<"U+16E51">> >>, <<"U+16E72", <<"U+16E52">> >>, <<"U+16E73", <<"U+16E53">> >>,
    <<"U+16E74", <<"U+16E54">> >>, <<"U+16E75", <<"U+16E55">> >>, <<"U+16E76", <<"U+16E56">> >>,
    <<"U+16E77", <<"U+16E57">> >>, <<"U+16E78", <<"U+16E58">> >>, <<"U+16E79", <<"U+16E59">> >>,
    <<"U+16E7A", <<"U+16E5A">> >>, <<"U+16E7B", <<"U+16E5B">> >>, <<"U+16E7C", <<"U+16E5C">> >>,
    <<"U+16E7D", <<"U+16E5D">> >>, <<"U+16E7E", <<"U+16E5E">> >>, <<"U+16E7F", <<"U+16E5F">> >>,
    <<"U+1E922", <<"U+1E900">> >>, <<"U+1E923", <<"U+1E901">> >>, <<"U+1E924", <<"U+1E902">> >>,
    <<"U+1E925", <<"U+1E903">> >>, <<"U+1E926", <<"U+1E904">> >>, <<"U+1E927", <<"U+1E905">> >>,
    <<"U+1E928", <<"U+1E906">> >>, <<"U+1E929", <<"U+1E907">> >>, <<"U+1E92A", <<"U+1E908">> >>,
    <<"U+1E92B", <<"U+1E909">> >>, <<"U+1E92C", <<"U+1E90A">> >>, <<"U+1E92D", <<"U+1E90B">> >>,
    <<"U+1E92E", <<"U+1E90C">> >>, <<"U+1E92F", <<"U+1E90D">> >>, <<"U+1E930", <<"U+1E90E">> >>,
    <<"U+1E931", <<"U+1E90F">> >>, <<"U+1E932", <<"U+1E910">> >>, <<"U+1E933", <<"U+1E911">> >>,
    <<"U+1E934", <<"U+1E912">> >>, <<"U+1E935", <<"U+1E913">> >>, <<"U+1E936", <<"U+1E914">> >>,
    <<"U+1E937", <<"U+1E915">> >>, <<"U+1E938", <<"U+1E916">> >>, <<"U+1E939", <<"U+1E917">> >>,
    <<"U+1E93A", <<"U+1E918">> >>, <<"U+1E93B", <<"U+1E919">> >>, <<"U+1E93C", <<"U+1E91A">> >>,
    <<"U+1E93D", <<"U+1E91B">> >>, <<"U+1E93E", <<"U+1E91C">> >>, <<"U+1E93F", <<"U+1E91D">> >>,
    <<"U+1E940", <<"U+1E91E">> >>, <<"U+1E941", <<"U+1E91F">> >>, <<"U+1E942", <<"U+1E920">> >>,
    <<"U+1E943", <<"U+1E921">> >>
  >>

\* The str each character of UnicodeUpperCase becomes, by character.
UpperCaseOf ==
  LET ByCharacter(table) ==
        [c \in {table[i][1] : i \in DOMAIN table} |->
           table[CHOOSE i \in DOMAIN table : table[i][1] = c][2]]
  IN  ByCharacter(UnicodeUpperCase)

\* str.upper() of the str of one character.
UpperChar(c) ==
  LET Mapped(mapping) == IF c \in DOMAIN mapping THEN mapping[c] ELSE <<c>>
  IN  Mapped(UpperCaseOf)

\* str.upper(): the upper-cased characters, one after the other.
RECURSIVE Upper(_)
Upper(s) ==
  IF s = <<>> THEN <<>> ELSE UpperChar(Head(s)) \o Upper(Tail(s))

\* enum[name]: the member of that name; KeyError when the enum has none.
EnumGetItem(enum, name) ==
  IF \E i \in DOMAIN enum : NameOf[enum[i]] = name
  THEN [ok |-> TRUE, member |-> enum[CHOOSE i \in DOMAIN enum : NameOf[enum[i]] = name]]
  ELSE [ok |-> FALSE, exc |-> "KeyError"]

\* obj.value: the display string of an enum member; a str has no such attribute.
AttrValue(pytype, obj) ==
  IF pytype = "Enum"
  THEN [ok |-> TRUE, value |-> ValueOf[obj]]
  ELSE [ok |-> FALSE, exc |-> "AttributeError"]

\* The base class of each exception class that can be raised here.
ExceptionBase ==
  [KeyError |-> "LookupError", LookupError |-> "Exception", AttributeError |-> "Exception",
   ValueError |-> "Exception", TypeError |-> "Exception", Exception |-> "BaseException"]

\* issubclass(exc, cls)
RECURSIVE IsSubclass(_, _)
IsSubclass(exc, cls) ==
  \/ exc = cls
  \/ exc \in DOMAIN ExceptionBase /\ IsSubclass(ExceptionBase[exc], cls)

\* int(x) of an int is that int.
PyInt(x) ==
  x

(***************************************************************************)
(* LAYER 3 of slapstick_enhancer_mcp.py: the MCP tools.  A tool call ends  *)
(* by returning a dictionary, kind "ok" (the complete response) or kind    *)
(* "error" ({"error": ...}), or by raising, kind "fault".                  *)
(***************************************************************************)
Raised(exc) ==
  [kind |-> "fault", exc |-> exc]

ErrorResponse(message, value) ==
  [kind |-> "error", error |-> [message |-> message, value |-> value]]

\* The loop over visual_priorities: the members found, or the first str that
\* names no member.
RECURSIVE ConvertPriorities(_, _)
ConvertPriorities(visual_priorities, priorities) ==
  IF visual_priorities = <<>> THEN [ok |-> TRUE, priorities |-> priorities]
  ELSE LET priority_str == Head(visual_priorities)
           found        == EnumGetItem(VisualPriority, Upper(priority_str))
       IN  IF found.ok
           THEN ConvertPriorities(Tail(visual_priorities), Append(priorities, found.member))
           ELSE [ok |-> FALSE, priority_str |-> priority_str]

\* The summary f-string: intensity_level.value, emotional_tone.value, subject_type and
\* the joined priorities.  emotional_tone is the str argument, not the member emotion.
DesignIntentSummary(intensity_level, emotional_tone, subject_type, priorities) ==
  LET visual_priorities_str == IF priorities # <<>>
                               THEN [i \in DOMAIN priorities |-> ValueOf[priorities[i]]]
                               ELSE <<"none specified">>
      intensity_value == AttrValue("Enum", intensity_level)
      tone_value      == AttrValue("str", emotional_tone)
  IN  IF ~intensity_value.ok THEN [ok |-> FALSE, exc |-> intensity_value.exc]
      ELSE IF ~tone_value.ok THEN [ok |-> FALSE, exc |-> tone_value.exc]
      ELSE [ok |-> TRUE,
            text |-> [intensity |-> intensity_value.value, tone |-> tone_value.value,
                      subject |-> subject_type, emphasizing |-> visual_priorities_str]]

\* The body of the try block of enhance_with_intent.
EnhanceWithIntentBody(base_prompt, subject_type, emotional_tone, visual_priorities, intensity) ==
  LET subject         == EnumGetItem(SubjectType, Upper(subject_type))
      emotion         == EnumGetItem(EmotionalTone, Upper(emotional_tone))
      intensity_level == EnumGetItem(IntensityLevel, Upper(intensity))
      converted       == ConvertPriorities(visual_priorities, <<>>)
  IN  IF ~subject.ok THEN Raised(subject.exc)
      ELSE IF ~emotion.ok THEN Raised(emotion.exc)
      ELSE IF ~intensity_level.ok THEN Raised(intensity_level.exc)
      ELSE IF ~converted.ok
           THEN ErrorResponse("Invalid visual priority: ", converted.priority_str)
      ELSE LET design_intent == DesignIntent(subject.member, emotion.member,
                                             converted.priorities, intensity_level.member)
               params        == design_intent_to_parameters(design_intent)
               summary       == DesignIntentSummary(intensity_level.member, emotional_tone,
                                                    subject_type, converted.priorities)
           IN  IF ~validate_parameters(params)
               THEN ErrorResponse("Invalid parameters generated", <<>>)
               ELSE IF ~summary.ok THEN Raised(summary.exc)
               ELSE [kind |-> "ok",
                     parameters_used |-> to_dict(params),
                     enhanced_prompt |-> build_enhanced_prompt(base_prompt, params),
                     negative_prompt |-> build_negative_prompt(params),
                     design_intent_summary |-> summary.text]

\* enhance_with_intent: the try block, and the handler except ValueError.
enhance_with_intent(base_prompt, subject_type, emotional_tone, visual_priorities, intensity) ==
  LET outcome == EnhanceWithIntentBody(base_prompt, subject_type, emotional_tone,
                                       visual_priorities, intensity)
  IN  IF outcome.kind = "fault" /\ IsSubclass(outcome.exc, "ValueError")
      THEN ErrorResponse("Invalid input: ", outcome.exc)
      ELSE outcome

\* The six arguments, each through int() and clamped to [0,10].
ClampedParameterSet(args) ==
  SlapstickParameterSet(Max(0, Min(10, PyInt(args.exaggeration))),
                        Max(0, Min(10, PyInt(args.timing))),
                        Max(0, Min(10, PyInt(args.physical))),
                        Max(0, Min(10, PyInt(args.ruleOfThree))),
                        Max(0, Min(10, PyInt(args.readability))),
                        Max(0, Min(10, PyInt(args.tension))))

\* enhance_with_parameters rendering the prompts from the arguments as given.
enhance_with_parametersRaw(base_prompt, args) ==
  LET params == ClampedParameterSet(args)
  IN  IF ~validate(params)
      THEN ErrorResponse("Parameters must be between 0 and 10", <<>>)
      ELSE [kind |-> "ok",
            parameters_used |-> to_dict(params),
            enhanced_prompt |-> build_enhanced_prompt(base_prompt, args),
            negative_prompt |-> build_negative_prompt(args)]

\* enhance_with_parameters; args are integers, so int() raises nothing.
enhance_with_parameters(base_prompt, args) ==
  LET params == ClampedParameterSet(args)
  IN  IF ~validate(params)
      THEN ErrorResponse("Parameters must be between 0 and 10", <<>>)
      ELSE [kind |-> "ok",
            parameters_used |-> to_dict(params),
            enhanced_prompt |-> build_enhanced_prompt(base_prompt, params),
            negative_prompt |-> build_negative_prompt(params)]

\* describe_parameters; args are integers, so int() raises nothing.  The response is
\* the dictionary descriptions with the entry 'parameters' added.
describe_parameters(args) ==
  LET params       == ClampedParameterSet(args)
      descriptions == parameters_to_enhancement_description(params)
  IN  ("kind" :> "ok") @@ descriptions @@ ("parameters" :> to_dict(params))

\* The class attributes of SlapstickOlogMorphisms when enhance_with_intent ends: the
\* resolver is called once the four arguments are converted, and nothing else of the
\* tool refers to the tables.
OlogAfterEnhanceWithIntent(subject_type, emotional_tone, visual_priorities, intensity) ==
  LET subject         == EnumGetItem(SubjectType, Upper(subject_type))
      emotion         == EnumGetItem(EmotionalTone, Upper(emotional_tone))
      intensity_level == EnumGetItem(IntensityLevel, Upper(intensity))
      converted       == ConvertPriorities(visual_priorities, <<>>)
  IN  IF subject.ok /\ emotion.ok /\ intensity_level.ok /\ converted.ok
      THEN OlogAfterResolve(DesignIntent(subject.member, emotion.member,
                                         converted.priorities, intensity_level.member))
      ELSE olog

\* get_available_options: the display strings of every enum, in definition order.
get_available_options ==
  [kind |-> "ok",
   subject_types     |-> [i \in DOMAIN SubjectType |-> ValueOf[SubjectType[i]]],
   emotional_tones   |-> [i \in DOMAIN EmotionalTone |-> ValueOf[EmotionalTone[i]]],
   visual_priorities |-> [i \in DOMAIN VisualPriority |-> ValueOf[VisualPriority[i]]],
   intensity_levels  |-> [i \in DOMAIN IntensityLevel |-> ValueOf[IntensityLevel[i]]]]

(***************************************************************************)
(* State.  olog holds the static tables of SlapstickOlogMorphisms; call is *)
(* the operation under way with its arguments, response what it returned   *)
(* (or the exception it raised).                                           *)
(***************************************************************************)
NoCall == [op |-> "none"]

NoResponse == [kind |-> "none"]

Init ==
  /\ olog = SlapstickOlogMorphisms
  /\ call = NoCall
  /\ response = NoResponse

\* The caller takes the response; the next call can start.
Return ==
  /\ call.op # "none"
  /\ call' = NoCall
  /\ response' = NoResponse
  /\ UNCHANGED olog

(***************************************************************************)
(* Bounds of the inputs.                                                   *)
(***************************************************************************)
\* Longest list of visual priorities given to design_intent_to_parameters.
MaxPriorities == 2

\* Longest list of visual priority strs given to enhance_with_intent.
MaxPriorityArgs == 1

\* Most arguments of enhance_with_parameters a caller gives; the others default.
MaxSupplied == 2

\* How far below 0 and above 10 a given argument lies at most.
Overshoot == 2

(***************************************************************************)
(* The MCP server: the tools called with strs and integers.                *)
(***************************************************************************)
BasePrompts ==
  {EmptyStr, <<"A corporate office">>}

\* The display strings, two of them in another letter case, strs that name no
\* member of the enum asked for, and strs with a character outside ASCII that upper()
\* turns into ASCII letters: U+017F (long s) in "scene", U+FB06 (the ligature st) in
\* "strong", U+0131 (dotless i) in "distortion".
SubjectStrings ==
  {ValueOf[SubjectType[i]] : i \in DOMAIN SubjectType}
    \cup {<<"S","t","i","l","l","_","L","i","f","e">>, <<"t","e","n","s","e">>,
          <<"U+017F","c","e","n","e">>}

ToneStrings ==
  {ValueOf[EmotionalTone[i]] : i \in DOMAIN EmotionalTone}
    \cup {<<"T","E","N","S","E">>, <<"h","a","p","p","y">>}

IntensityStrings ==
  {ValueOf[IntensityLevel[i]] : i \in DOMAIN IntensityLevel}
    \cup {<<"E","x","t","r","e","m","e">>, <<"m","a","x">>, <<"U+FB06","r","o","n","g">>}

PriorityStrings ==
  {ValueOf[VisualPriority[i]] : i \in DOMAIN VisualPriority}
    \cup {<<"F","l","o","w">>, <<"c","o","l","o","r">>,
          <<"d","U+0131","s","t","o","r","t","U+0131","o","n">>}

PriorityStringLists ==
  UNION {[1..n -> PriorityStrings] : n \in 0..MaxPriorityArgs}

EnhanceWithIntent ==
  /\ call.op = "none"
  /\ \E base_prompt \in BasePrompts, subject_type \in SubjectStrings,
        emotional_tone \in ToneStrings, visual_priorities \in PriorityStringLists,
        intensity \in IntensityStrings :
       /\ call' = [op |-> "enhance_with_intent", base_prompt |-> base_prompt,
                   subject_type |-> subject_type, emotional_tone |-> emotional_tone,
                   visual_priorities |-> visual_priorities, intensity |-> intensity]
       /\ response' = enhance_with_intent(base_prompt, subject_type, emotional_tone,
                                          visual_priorities, intensity)
       /\ olog' = OlogAfterEnhanceWithIntent(subject_type, emotional_tone,
                                             visual_priorities, intensity)

\* The default of every parameter of enhance_with_parameters.
DefaultParameters ==
  SlapstickParameterSet(5, 5, 5, 5, 5, 5)

InputValues ==
  (0 - Overshoot)..(10 + Overshoot)

\* The arguments a caller gives by name: at most MaxSupplied of the six.
SuppliedArguments ==
  UNION {[S -> InputValues] :
           S \in {T \in SUBSET Range(ParamNames) : Cardinality(T) <= MaxSupplied}}

\* The six arguments the function body sees: the given ones, the defaults elsewhere.
BoundArguments(supplied) ==
  [p \in Range(ParamNames) |-> IF p \in DOMAIN supplied THEN supplied[p]
                               ELSE DefaultParameters[p]]

EnhanceWithParameters ==
  /\ call.op = "none"
  /\ \E base_prompt \in BasePrompts, supplied \in SuppliedArguments :
       LET args == BoundArguments(supplied)
       IN  /\ call' = [op |-> "enhance_with_parameters", base_prompt |-> base_prompt,
                       args |-> args]
           /\ response' = enhance_with_parameters(base_prompt, args)
  /\ UNCHANGED olog

DescribeParameters ==
  /\ call.op = "none"
  /\ \E supplied \in SuppliedArguments :
       LET args == BoundArguments(supplied)
       IN  /\ call' = [op |-> "describe_parameters", args |-> args]
           /\ response' = describe_parameters(args)
  /\ UNCHANGED olog

GetAvailableOptions ==
  /\ call.op = "none"
  /\ call' = [op |-> "get_available_options"]
  /\ response' = get_available_options
  /\ UNCHANGED olog

\* The two tools that render prompts, called in any order.
Next ==
  \/ EnhanceWithIntent
  \/ EnhanceWithParameters
  \/ Return

Spec == Init /\ [][Next]_vars

(***************************************************************************)
(* The intent resolver called on every DesignIntent with at most           *)
(* MaxPriorities visual priorities.                                        *)
(***************************************************************************)
PriorityLists ==
  UNION {[1..n -> Range(VisualPriority)] : n \in 0..MaxPriorities}

DesignIntentToParameters ==
  /\ call.op = "none"
  /\ \E subject_type \in Range(SubjectType), emotional_tone \in Range(EmotionalTone),
        intensity_level \in Range(IntensityLevel), visual_priorities \in PriorityLists :
       LET design_intent == DesignIntent(subject_type, emotional_tone, visual_priorities,
                                         intensity_level)
       IN  /\ call' = [op |-> "design_intent_to_parameters", design_intent |-> design_intent]
           /\ response' = [kind |-> "value",
                           params |-> design_intent_to_parameters(design_intent)]
           /\ olog' = OlogAfterResolve(design_intent)

NextResolver ==
  \/ DesignIntentToParameters
  \/ Return

SpecResolver == Init /\ [][NextResolver]_vars

(***************************************************************************)
(* describe_parameters called alone; get_available_options together with  *)
(* the tool that looks the options up; and the whole of the system, the    *)
(* four tools and the intent resolver called in any order.                 *)
(***************************************************************************)
NextDescribe ==
  \/ DescribeParameters
  \/ Return

SpecDescribe == Init /\ [][NextDescribe]_vars

NextOptions ==
  \/ GetAvailableOptions
  \/ EnhanceWithIntent
  \/ Return

SpecOptions == Init /\ [][NextOptions]_vars

NextSystem ==
  \/ EnhanceWithIntent
  \/ EnhanceWithParameters
  \/ DescribeParameters
  \/ GetAvailableOptions
  \/ DesignIntentToParameters
  \/ Return

SpecSystem == Init /\ [][NextSystem]_vars

(***************************************************************************)
(* The two prompt builders called on parameter sets within [0,10]:         *)
(* build_negative_prompt on every one, build_enhanced_prompt on those      *)
(* whose fields are all bucket minima or all bucket maxima and on those    *)
(* with at most two fields off the default.                                *)
(***************************************************************************)
ParameterSets ==
  [Range(ParamNames) -> 0..10]

BuildNegativePrompt ==
  /\ call.op = "none"
  /\ \E params \in ParameterSets :
       /\ call' = [op |-> "build_negative_prompt", params |-> params]
       /\ response' = [kind |-> "value", text |-> build_negative_prompt(params)]
  /\ UNCHANGED olog

NextNegative ==
  \/ BuildNegativePrompt
  \/ Return

SpecNegative == Init /\ [][NextNegative]_vars

\* The six enhancement tables, in the order build_enhanced_prompt reads them.
EnhancementTables ==
  [exaggeration |-> EXAGGERATION_TEMPLATES, timing |-> TIMING_TEMPLATES,
   physical |-> PHYSICAL_TEMPLATES, ruleOfThree |-> RULE_OF_THREE_TEMPLATES,
   readability |-> READABILITY_TEMPLATES, tension |-> TENSION_TEMPLATES]

BucketMinima ==
  UNION {{EnhancementTables[p][i].min : i \in DOMAIN EnhancementTables[p]} :
           p \in Range(ParamNames)}

BucketMaxima ==
  UNION {{EnhancementTables[p][i].max : i \in DOMAIN EnhancementTables[p]} :
           p \in Range(ParamNames)}

\* Every combination of bucket minima, every combination of bucket maxima, and every
\* pair of values 0..10 of two parameters (or value of one) with the others at their
\* default.
EnhancedInputs ==
  [Range(ParamNames) -> BucketMinima]
    \cup [Range(ParamNames) -> BucketMaxima]
    \cup {[DefaultParameters EXCEPT ![p] = v, ![q] = w] :
            p \in Range(ParamNames), q \in Range(ParamNames), v \in 0..10, w \in 0..10}

BuildEnhancedPrompt ==
  /\ call.op = "none"
  /\ \E base_prompt \in BasePrompts, params \in EnhancedInputs :
       /\ call' = [op |-> "build_enhanced_prompt", base_prompt |-> base_prompt,
                   params |-> params]
       /\ response' = [kind |-> "value", text |-> build_enhanced_prompt(base_prompt, params)]
  /\ UNCHANGED olog

NextEnhanced ==
  \/ BuildEnhancedPrompt
  \/ Return

SpecEnhanced == Init /\ [][NextEnhanced]_vars

(***************************************************************************)
(* Properties.                                                             *)
(***************************************************************************)
\* Every character that case folding (str.casefold(), the caseless matching of
\* Unicode) changes, with the str it becomes.
UnicodeCaseFold ==
  <<
    <<"A", <<"a">> >>, <<"B", <<"b">> >>, <<"C", <<"c">> >>, <<"D", <<"d">> >>,
    <<"E", <<"e">> >>, <<"F", <<"f">> >>, <<"G", <<"g">> >>, <<"H", <<"h">> >>,
    <<"I", <<"i">> >>, <<"J", <<"j">> >>, <<"K", <<"k">> >>, <<"L", <<"l">> >>,
    <<"M", <<"m">> >>, <<"N", <<"n">> >>, <<"O", <<"o">> >>, <<"P", <<"p">> >>,
    <<"Q", <<"q">> >>, <<"R", <<"r">> >>, <<"S", <<"s">> >>, <<"T", <<"t">> >>,
    <<"U", <<"u">> >>, <<"V", <<"v">> >>, <<"W", <<"w">> >>, <<"X", <<"x">> >>,
    <<"Y", <<"y">> >>, <<"Z", <<"z">> >>, <<"µ", <<"U+03BC">> >>, <<"À", <<"à">> >>,
    <<"Á", <<"á">> >>, <<"Â", <<"â">> >>, <<"Ã", <<"ã">> >>, <<"Ä", <<"ä">> >>,
    <<"Å", <<"å">> >>, <<"Æ", <<"æ">> >>, <<"Ç", <<"ç">> >>, <<"È", <<"è">> >>,
    <<"É", <<"é">> >>, <<"Ê", <<"ê">> >>, <<"Ë", <<"ë">> >>, <<"Ì", <<"ì">> >>,
    <<"Í", <<"í">> >>, <<"Î", <<"î">> >>, <<"Ï", <<"ï">> >>, <<"Ð", <<"ð">> >>,
    <<"Ñ", <<"ñ">> >>, <<"Ò", <<"ò">> >>, <<"Ó", <<"ó">> >>, <<"Ô", <<"ô">> >>,
    <<"Õ", <<"õ">> >>, <<"Ö", <<"ö">> >>, <<"Ø", <<"ø">> >>, <<"Ù", <<"ù">> >>,
    <<"Ú", <<"ú">> >>, <<"Û", <<"û">> >>, <<"Ü", <<"ü">> >>, <<"Ý", <<"ý">> >>,
    <<"Þ", <<"þ">> >>, <<"ß", <<"s","s">> >>, <<"U+0100", <<"U+0101">> >>,
    <<"U+0102", <<"U+0103">> >>, <<"U+0104", <<"U+0105">> >>, <<"U+0106", <<"U+0107">> >>,
    <<"U+0108", <<"U+0109">> >>, <<"U+010A", <<"U+010B">> >>, <<"U+010C", <<"U+010D">> >>,
    <<"U+010E", <<"U+010F">> >>, <<"U+0110", <<"U+0111">> >>, <<"U+0112", <<"U+0113">> >>,
    <<"U+0114", <<"U+0115">> >>, <<"U+0116", <<"U+0117">> >>, <<"U+0118", <<"U+0119">> >>,
    <<"U+011A", <<"U+011B">> >>, <<"U+011C", <<"U+011D">> >>, <<"U+011E", <<"U+011F">> >>,
    <<"U+0120", <<"U+0121">> >>, <<"U+0122", <<"U+0123">> >>, <<"U+0124", <<"U+0125">> >>,
    <<"U+0126", <<"U+0127">> >>, <<"U+0128", <<"U+0129">> >>, <<"U+012A", <<"U+012B">> >>,
    <<"U+012C", <<"U+012D">> >>, <<"U+012E", <<"U+012F">> >>, <<"U+0130", <<"i","U+0307">> >>,
    <<"U+0132", <<"U+0133">> >>, <<"U+0134", <<"U+0135">> >>, <<"U+0136", <<"U+0137">> >>,
    <<"U+0139", <<"U+013A">> >>, <<"U+013B", <<"U+013C">> >>, <<"U+013D", <<"U+013E">> >>,
    <<"U+013F", <<"U+0140">> >>, <<"U+0141", <<"U+0142">> >>, <<"U+0143", <<"U+0144">> >>,
    <<"U+0145", <<"U+0146">> >>, <<"U+0147", <<"U+0148">> >>, <<"U+0149", <<"U+02BC","n">> >>,
    <<"U+014A", <<"U+014B">> >>, <<"U+014C", <<"U+014D">> >>, <<"U+014E", <<"U+014F">> >>,
    <<"U+0150", <<"U+0151">> >>, <<"U+0152", <<"U+0153">> >>, <<"U+0154", <<"U+0155">> >>,
    <<"U+0156", <<"U+0157">> >>, <<"U+0158", <<"U+0159">> >>, <<"U+015A", <<"U+015B">> >>,
    <<"U+015C", <<"U+015D">> >>, <<"U+015E", <<"U+015F">> >>, <<"U+0160", <<"U+0161">> >>,
    <<"U+0162", <<"U+0163">> >>, <<"U+0164", <<"U+0165">> >>, <<"U+0166", <<"U+0167">> >>,
    <<"U+0168", <<"U+0169">> >>, <<"U+016A", <<"U+016B">> >>, <<"U+016C", <<"U+016D">> >>,
    <<"U+016E", <<"U+016F">> >>, <<"U+0170", <<"U+0171">> >>, <<"U+0172", <<"U+0173">> >>,
    <<"U+0174", <<"U+0175">> >>, <<"U+0176", <<"U+0177">> >>, <<"U+0178", <<"ÿ">> >>,
    <<"U+0179", <<"U+017A">> >>, <<"U+017B", <<"U+017C">> >>, <<"U+017D", <<"U+017E">> >>,
    <<"U+017F", <<"s">> >>, <<"U+0181", <<"U+0253">> >>, <<"U+0182", <<"U+0183">> >>,
    <<"U+0184", <<"U+0185">> >>, <<"U+0186", <<"U+0254">> >>, <<"U+0187", <<"U+0188">> >>,
    <<"U+0189", <<"U+0256">> >>, <<"U+018A", <<"U+0257">> >>, <<"U+018B", <<"U+018C">> >>,
    <<"U+018E", <<"U+01DD">> >>, <<"U+018F", <<"U+0259">> >>, <<"U+0190", <<"U+025B">> >>,
    <<"U+0191", <<"U+0192">> >>, <<"U+0193", <<"U+0260">> >>, <<"U+0194", <<"U+0263">> >>,
    <<"U+0196", <<"U+0269">> >>, <<"U+0197", <<"U+0268">> >>, <<"U+0198", <<"U+0199">> >>,
    <<"U+019C", <<"U+026F">> >>, <<"U+019D", <<"U+0272">> >>, <<"U+019F", <<"U+0275">> >>,
    <<"U+01A0", <<"U+01A1">> >>, <<"U+01A2", <<"U+01A3">> >>, <<"U+01A4", <<"U+01A5">> >>,
    <<"U+01A6", <<"U+0280">> >>, <<"U+01A7", <<"U+01A8">> >>, <<"U+01A9", <<"U+0283">> >>,
    <<"U+01AC", <<"U+01AD">> >>, <<"U+01AE", <<"U+0288">> >>, <<"U+01AF", <<"U+01B0">> >>,
    <<"U+01B1", <<"U+028A">> >>, <<"U+01B2", <<"U+028B">> >>, <<"U+01B3", <<"U+01B4">> >>,
    <<"U+01B5", <<"U+01B6">> >>, <<"U+01B7", <<"U+0292">> >>, <<"U+01B8", <<"U+01B9">> >>,
    <<"U+01BC", <<"U+01BD">> >>, <<"U+01C4", <<"U+01C6">> >>, <<"U+01C5", <<"U+01C6">> >>,
    <<"U+01C7", <<"U+01C9">> >>, <<"U+01C8", <<"U+01C9">> >>, <<"U+01CA", <<"U+01CC">> >>,
    <<"U+01CB", <<"U+01CC">> >>, <<"U+01CD", <<"U+01CE">> >>, <<"U+01CF", <<"U+01D0">> >>,
    <<"U+01D1", <<"U+01D2">> >>, <<"U+01D3", <<"U+01D4">> >>, <<"U+01D5", <<"U+01D6">> >>,
    <<"U+01D7", <<"U+01D8">> >>, <<"U+01D9", <<"U+01DA">> >>, <<"U+01DB", <<"U+01DC">> >>,
    <<"U+01DE", <<"U+01DF">> >>, <<"U+01E0", <<"U+01E1">> >>, <<"U+01E2", <<"U+01E3">> >>,
    <<"U+01E4", <<"U+01E5">> >>, <<"U+01E6", <<"U+01E7">> >>, <<"U+01E8", <<"U+01E9">> >>,
    <<"U+01EA", <<"U+01EB">> >>, <<"U+01EC", <<"U+01ED">> >>, <<"U+01EE", <<"U+01EF">> >>,
    <<"U+01F0", <<"j","U+030C">> >>, <<"U+01F1", <<"U+01F3">> >>, <<"U+01F2", <<"U+01F3">> >>,
    <<"U+01F4", <<"U+01F5">> >>, <<"U+01F6", <<"U+0195">> >>, <<"U+01F7", <<"U+01BF">> >>,
    <<"U+01F8", <<"U+01F9">> >>, <<"U+01FA", <<"U+01FB">> >>, <<"U+01FC", <<"U+01FD">> >>,
    <<"U+01FE", <<"U+01FF">> >>, <<"U+0200", <<"U+0201">> >>, <<"U+0202", <<"U+0203">> >>,
    <<"U+0204", <<"U+0205">> >>, <<"U+0206", <<"U+0207">> >>, <<"U+0208", <<"U+0209">> >>,
    <<"U+020A", <<"U+020B">> >>, <<"U+020C", <<"U+020D">> >>, <<"U+020E", <<"U+020F">> >>,
    <<"U+0210", <<"U+0211">> >>, <<"U+0212", <<"U+0213">> >>, <<"U+0214", <<"U+0215">> >>,
    <<"U+0216", <<"U+0217">> >>, <<"U+0218", <<"U+0219">> >>, <<"U+021A", <<"U+021B">> >>,
    <<"U+021C", <<"U+021D">> >>, <<"U+021E", <<"U+021F">> >>, <<"U+0220", <<"U+019E">> >>,
    <<"U+0222", <<"U+0223">> >>, <<"U+0224", <<"U+0225">> >>, <<"U+0226", <<"U+0227">> >>,
    <<"U+0228", <<"U+0229">> >>, <<"U+022A", <<"U+022B">> >>, <<"U+022C", <<"U+022D">> >>,
    <<"U+022E", <<"U+022F">> >>, <<"U+0230", <<"U+0231">> >>, <<"U+0232", <<"U+0233">> >>,
    <<"U+023A", <<"U+2C65">> >>, <<"U+023B", <<"U+023C">> >>, <<"U+023D", <<"U+019A">> >>,
    <<"U+023E", <<"U+2C66">> >>, <<"U+0241", <<"U+0242">> >>, <<"U+0243", <<"U+0180">> >>,
    <<"U+0244", <<"U+0289">> >>, <<"U+0245", <<"U+028C">> >>, <<"U+0246", <<"U+0247">> >>,
    <<"U+0248", <<"U+0249">> >>, <<"U+024A", <<"U+024B">> >>, <<"U+024C", <<"U+024D">> >>,
    <<"U+024E", <<"U+024F">> >>, <<"U+0345", <<"U+03B9">> >>, <<"U+0370", <<"U+0371">> >>,
    <<"U+0372", <<"U+0373">> >>, <<"U+0376", <<"U+0377">> >>, <<"U+037F", <<"U+03F3">> >>,
    <<"U+0386", <<"U+03AC">> >>, <<"U+0388", <<"U+03AD">> >>, <<"U+0389", <<"U+03AE">> >>,
    <<"U+038A", <<"U+03AF">> >>, <<"U+038C", <<"U+03CC">> >>, <<"U+038E", <<"U+03CD">> >>,
    <<"U+038F", <<"U+03CE">> >>, <<"U+0390", <<"U+03B9","U+0308","U+0301">> >>,
    <<"U+0391", <<"U+03B1">> >>, <<"U+0392", <<"U+03B2">> >>, <<"U+0393", <<"U+03B3">> >>,
    <<"U+0394", <<"U+03B4">> >>, <<"U+0395", <<"U+03B5">> >>, <<"U+0396", <<"U+03B6">> >>,
    <<"U+0397", <<"U+03B7">> >>, <<"U+0398", <<"U+03B8">> >>, <<"U+0399", <<"U+03B9">> >>,
    <<"U+039A", <<"U+03BA">> >>, <<"U+039B", <<"U+03BB">> >>, <<"U+039C", <<"U+03BC">> >>,
    <<"U+039D", <<"U+03BD">> >>, <<"U+039E", <<"U+03BE">> >>, <<"U+039F", <<"U+03BF">> >>,
    <<"U+03A0", <<"U+03C0">> >>, <<"U+03A1", <<"U+03C1">> >>, <<"U+03A3", <<"U+03C3">> >>,
    <<"U+03A4", <<"U+03C4">> >>, <<"U+03A5", <<"U+03C5">> >>, <<"U+03A6", <<"U+03C6">> >>,
    <<"U+03A7", <<"U+03C7">> >>, <<"U+03A8", <<"U+03C8">> >>, <<"U+03A9", <<"U+03C9">> >>,
    <<"U+03AA", <<"U+03CA">> >>, <<"U+03AB", <<"U+03CB">> >>,
    <<"U+03B0", <<"U+03C5","U+0308","U+0301">> >>, <<"U+03C2", <<"U+03C3">> >>,
    <<"U+03CF", <<"U+03D7">> >>, <<"U+03D0", <<"U+03B2">> >>, <<"U+03D1", <<"U+03B8">> >>,
    <<"U+03D5", <<"U+03C6">> >>, <<"U+03D6", <<"U+03C0">> >>, <<"U+03D8", <<"U+03D9">> >>,
    <<"U+03DA", <<"U+03DB">> >>, <<"U+03DC", <<"U+03DD">> >>, <<"U+03DE", <<"U+03DF">> >>,
    <<"U+03E0", <<"U+03E1">> >>, <<"U+03E2", <<"U+03E3">> >>, <<"U+03E4", <<"U+03E5">> >>,
    <<"U+03E6", <<"U+03E7">> >>, <<"U+03E8", <<"U+03E9">> >>, <<"U+03EA", <<"U+03EB">> >>,
    <<"U+03EC", <<"U+03ED">> >>, <<"U+03EE", <<"U+03EF">> >>, <<"U+03F0", <<"U+03BA">> >>,
    <<"U+03F1", <<"U+03C1">> >>, <<"U+03F4", <<"U+03B8">> >>, <<"U+03F5", <<"U+03B5">> >>,
    <<"U+03F7", <<"U+03F8">> >>, <<"U+03F9", <<"U+03F2">> >>, <<"U+03FA", <<"U+03FB">> >>,
    <<"U+03FD", <<"U+037B">> >>, <<"U+03FE", <<"U+037C">> >>, <<"U+03FF", <<"U+037D">> >>,
    <<"U+0400", <<"U+0450">> >>, <<"U+0401", <<"U+0451">> >>, <<"U+0402", <<"U+0452">> >>,
    <<"U+0403", <<"U+0453">> >>, <<"U+0404", <<"U+0454">> >>, <<"U+0405", <<"U+0455">> >>,
    <<"U+0406", <<"U+0456">> >>, <<"U+0407", <<"U+0457">> >>, <<"U+0408", <<"U+0458">> >>,
    <<"U+0409", <<"U+0459">> >>, <<"U+040A", <<"U+045A">> >>, <<"U+040B", <<"U+045B">> >>,
    <<"U+040C", <<"U+045C">> >>, <<"U+040D", <<"U+045D">> >>, <<"U+040E", <<"U+045E">> >>,
    <<"U+040F", <<"U+045F">> >>, <<"U+0410", <<"U+0430">> >>, <<"U+0411", <<"U+0431">> >>,
    <<"U+0412", <<"U+0432">> >>, <<"U+0413", <<"U+0433">> >>, <<"U+0414", <<"U+0434">> >>,
    <<"U+0415", <<"U+0435">> >>, <<"U+0416", <<"U+0436">> >>, <<"U+0417", <<"U+0437">> >>,
    <<"U+0418", <<"U+0438">> >>, <<"U+0419", <<"U+0439">> >>, <<"U+041A", <<"U+043A">> >>,
    <<"U+041B", <<"U+043B">> >>, <<"U+041C", <<"U+043C">> >>, <<"U+041D", <<"U+043D">> >>,
    <<"U+041E", <<"U+043E">> >>, <<"U+041F", <<"U+043F">> >>, <<"U+0420", <<"U+0440">> >>,
    <<"U+0421", <<"U+0441">> >>, <<"U+0422", <<"U+0442">> >>, <<"U+0423", <<"U+0443">> >>,
    <<"U+0424", <<"U+0444">> >>, <<"U+0425", <<"U+0445">> >>, <<"U+0426", <<"U+0446">> >>,
    <<"U+0427", <<"U+0447">> >>, <<"U+0428", <<"U+0448">> >>, <<"U+0429", <<"U+0449">> >>,
    <<"U+042A", <<"U+044A">> >>, <<"U+042B", <<"U+044B">> >>, <<"U+042C", <<"U+044C">> >>,
    <<"U+042D", <<"U+044D">> >>, <<"U+042E", <<"U+044E">> >>, <<"U+042F", <<"U+044F">> >>,
    <<"U+0460", <<"U+0461">> >>, <<"U+0462", <<"U+0463">> >>, <<"U+0464", <<"U+0465">> >>,
    <<"U+0466", <<"U+0467">> >>, <<"U+0468", <<"U+0469">> >>, <<"U+046A", <<"U+046B">> >>,
    <<"U+046C", <<"U+046D">> >>, <<"U+046E", <<"U+046F">> >>, <<"U+0470", <<"U+0471">> >>,
    <<"U+0472", <<"U+0473">> >>, <<"U+0474", <<"U+0475">> >>, <<"U+0476", <<"U+0477">> >>,
    <<"U+0478", <<"U+0479">> >>, <<"U+047A", <<"U+047B">> >>, <<"U+047C", <<"U+047D">> >>,
    <<"U+047E", <<"U+047F">> >>, <<"U+0480", <<"U+0481">> >>, <<"U+048A", <<"U+048B">> >>,
    <<"U+048C", <<"U+048D">> >>, <<"U+048E", <<"U+048F">> >>, <<"U+0490", <<"U+0491">> >>,
    <<"U+0492", <<"U+0493">> >>, <<"U+0494", <<"U+0495">> >>, <<"U+0496", <<"U+0497">> >>,
    <<"U+0498", <<"U+0499">> >>, <<"U+049A", <<"U+049B">> >>, <<"U+049C", <<"U+049D">> >>,
    <<"U+049E", <<"U+049F">> >>, <<"U+04A0", <<"U+04A1">> >>, <<"U+04A2", <<"U+04A3">> >>,
    <<"U+04A4", <<"U+04A5">> >>, <<"U+04A6", <<"U+04A7">> >>, <<"U+04A8", <<"U+04A9">> >>,
    <<"U+04AA", <<"U+04AB">> >>, <<"U+04AC", <<"U+04AD">> >>, <<"U+04AE", <<"U+04AF">> >>,
    <<"U+04B0", <<"U+04B1">> >>, <<"U+04B2", <<"U+04B3">> >>, <<"U+04B4", <<"U+04B5">> >>,
    <<"U+04B6", <<"U+04B7">> >>, <<"U+04B8", <<"U+04B9">> >>, <<"U+04BA", <<"U+04BB">> >>,
    <<"U+04BC", <<"U+04BD">> >>, <<"U+04BE", <<"U+04BF">> >>, <<"U+04C0", <<"U+04CF">> >>,
    <<"U+04C1", <<"U+04C2">> >>, <<"U+04C3", <<"U+04C4">> >>, <<"U+04C5", <<"U+04C6">> >>,
    <<"U+04C7", <<"U+04C8">> >>, <<"U+04C9", <<"U+04CA">> >>, <<"U+04CB", <<"U+04CC">> >>,
    <<"U+04CD", <<"U+04CE">> >>, <<"U+04D0", <<"U+04D1">> >>, <<"U+04D2", <<"U+04D3">> >>,
    <<"U+04D4", <<"U+04D5">> >>, <<"U+04D6", <<"U+04D7">> >>, <<"U+04D8", <<"U+04D9">> >>,
    <<"U+04DA", <<"U+04DB">> >>, <<"U+04DC", <<"U+04DD">> >>, <<"U+04DE", <<"U+04DF">> >>,
    <<"U+04E0", <<"U+04E1">> >>, <<"U+04E2", <<"U+04E3">> >>, <<"U+04E4", <<"U+04E5">> >>,
    <<"U+04E6", <<"U+04E7">> >>, <<"U+04E8", <<"U+04E9">> >>, <<"U+04EA", <<"U+04EB">> >>,
    <<"U+04EC", <<"U+04ED">> >>, <<"U+04EE", <<"U+04EF">> >>, <<"U+04F0", <<"U+04F1">> >>,
    <<"U+04F2", <<"U+04F3">> >>, <<"U+04F4", <<"U+04F5">> >>, <<"U+04F6", <<"U+04F7">> >>,
    <<"U+04F8", <<"U+04F9">> >>, <<"U+04FA", <<"U+04FB">> >>, <<"U+04FC", <<"U+04FD">> >>,
    <<"U+04FE", <<"U+04FF">> >>, <<"U+0500", <<"U+0501">> >>, <<"U+0502", <<"U+0503">> >>,
    <<"U+0504", <<"U+0505">> >>, <<"U+0506", <<"U+0507">> >>, <<"U+0508", <<"U+0509">> >>,
    <<"U+050A", <<"U+050B">> >>, <<"U+050C", <<"U+050D">> >>, <<"U+050E", <<"U+050F">> >>,
    <<"U+0510", <<"U+0511">> >>, <<"U+0512", <<"U+0513">> >>, <<"U+0514", <<"U+0515">> >>,
    <<"U+0516", <<"U+0517">> >>, <<"U+0518", <<"U+0519">> >>, <<"U+051A", <<"U+051B">> >>,
    <<"U+051C", <<"U+051D">> >>, <<"U+051E", <<"U+051F">> >>, <<"U+0520", <<"U+0521">> >>,
    <<"U+0522", <<"U+0523">> >>, <<"U+0524", <<"U+0525">> >>, <<"U+0526", <<"U+0527">> >>,
    <<"U+0528", <<"U+0529">> >>, <<"U+052A", <<"U+052B">> >>, <<"U+052C", <<"U+052D">> >>,
    <<"U+052E", <<"U+052F">> >>, <<"U+0531", <<"U+0561">> >>, <<"U+0532", <<"U+0562">> >>,
    <<"U+0533", <<"U+0563">> >>, <<"U+0534", <<"U+0564">> >>, <<"U+0535", <<"U+0565">> >>,
    <<"U+0536", <<"U+0566">> >>, <<"U+0537", <<"U+0567">> >>, <<"U+0538", <<"U+0568">> >>,
    <<"U+0539", <<"U+0569">> >>, <<"U+053A", <<"U+056A">> >>, <<"U+053B", <<"U+056B">> >>,
    <<"U+053C", <<"U+056C">> >>, <<"U+053D", <<"U+056D">> >>, <<"U+053E", <<"U+056E">> >>,
    <<"U+053F", <<"U+056F">> >>, <<"U+0540", <<"U+0570">> >>, <<"U+0541", <<"U+0571">> >>,
    <<"U+0542", <<"U+0572">> >>, <<"U+0543", <<"U+0573">> >>, <<"U+0544", <<"U+0574">> >>,
    <<"U+0545", <<"U+0575">> >>, <<"U+0546", <<"U+0576">> >>, <<"U+0547", <<"U+0577">> >>,
    <<"U+0548", <<"U+0578">> >>, <<"U+0549", <<"U+0579">> >>, <<"U+054A", <<"U+057A">> >>,
    <<"U+054B", <<"U+057B">> >>, <<"U+054C", <<"U+057C">> >>, <<"U+054D", <<"U+057D">> >>,
    <<"U+054E", <<"U+057E">> >>, <<"U+054F", <<"U+057F">> >>, <<"U+0550", <<"U+0580">> >>,
    <<"U+0551", <<"U+0581">> >>, <<"U+0552", <<"U+0582">> >>, <<"U+0553", <<"U+0583">> >>,
    <<"U+0554", <<"U+0584">> >>, <<"U+0555", <<"U+0585">> >>, <<"U+0556", <<"U+0586">> >>,
    <<"U+0587", <<"U+0565","U+0582">> >>, <<"U+10A0", <<"U+2D00">> >>,
    <<"U+10A1", <<"U+2D01">> >>, <<"U+10A2", <<"U+2D02">> >>, <<"U+10A3", <<"U+2D03">> >>,
    <<"U+10A4", <<"U+2D04">> >>, <<"U+10A5", <<"U+2D05">> >>, <<"U+10A6", <<"U+2D06">> >>,
    <<"U+10A7", <<"U+2D07">> >>, <<"U+10A8", <<"U+2D08">> >>, <<"U+10A9", <<"U+2D09">> >>,
    <<"U+10AA", <<"U+2D0A">> >>, <<"U+10AB", <<"U+2D0B">> >>, <<"U+10AC", <<"U+2D0C">> >>,
    <<"U+10AD", <<"U+2D0D">> >>, <<"U+10AE", <<"U+2D0E">> >>, <<"U+10AF", <<"U+2D0F">> >>,
    <<"U+10B0", <<"U+2D10">> >>, <<"U+10B1", <<"U+2D11">> >>, <<"U+10B2", <<"U+2D12">> >>,
    <<"U+10B3", <<"U+2D13">> >>, <<"U+10B4", <<"U+2D14">> >>, <<"U+10B5", <<"U+2D15">> >>,
    <<"U+10B6", <<"U+2D16">> >>, <<"U+10B7", <<"U+2D17">> >>, <<"U+10B8", <<"U+2D18">> >>,
    <<"U+10B9", <<"U+2D19">> >>, <<"U+10BA", <<"U+2D1A">> >>, <<"U+10BB", <<"U+2D1B">> >>,
    <<"U+10BC", <<"U+2D1C">> >>, <<"U+10BD", <<"U+2D1D">> >>, <<"U+10BE", <<"U+2D1E">> >>,
    <<"U+10BF", <<"U+2D1F">> >>, <<"U+10C0", <<"U+2D20">> >>, <<"U+10C1", <<"U+2D21">> >>,
    <<"U+10C2", <<"U+2D22">> >>, <<"U+10C3", <<"U+2D23">> >>, <<"U+10C4", <<"U+2D24">> >>,
    <<"U+10C5", <<"U+2D25">> >>, <<"U+10C7", <<"U+2D27">> >>, <<"U+10CD", <<"U+2D2D">> >>,
    <<"U+13F8", <<"U+13F0">> >>, <<"U+13F9", <<"U+13F1">> >>, <<"U+13FA", <<"U+13F2">> >>,
    <<"U+13FB", <<"U+13F3">> >>, <<"U+13FC", <<"U+13F4">> >>, <<"U+13FD", <<"U+13F5">> >>,
    <<"U+1C80", <<"U+0432">> >>, <<"U+1C81", <<"U+0434">> >>, <<"U+1C82", <<"U+043E">> >>,
    <<"U+1C83", <<"U+0441">> >>, <<"U+1C84", <<"U+0442">> >>, <<"U+1C85", <<"U+0442">> >>,
    <<"U+1C86", <<"U+044A">> >>, <<"U+1C87", <<"U+0463">> >>, <<"U+1C88", <<"U+A64B">> >>,
    <<"U+1C90", <<"U+10D0">> >>, <<"U+1C91", <<"U+10D1">> >>, <<"U+1C92", <<"U+10D2">> >>,
    <<"U+1C93", <<"U+10D3">> >>, <<"U+1C94", <<"U+10D4">> >>, <<"U+1C95", <<"U+10D5">> >>,
    <<"U+1C96", <<"U+10D6">> >>, <<"U+1C97", <<"U+10D7">> >>, <<"U+1C98", <<"U+10D8">> >>,
    <<"U+1C99", <<"U+10D9">> >>, <<"U+1C9A", <<"U+10DA">> >>, <<"U+1C9B", <<"U+10DB">> >>,
    <<"U+1C9C", <<"U+10DC">> >>, <<"U+1C9D", <<"U+10DD">> >>, <<"U+1C9E", <<"U+10DE">> >>,
    <<"U+1C9F", <<"U+10DF">> >>, <<"U+1CA0", <<"U+10E0">> >>, <<"U+1CA1", <<"U+10E1">> >>,
    <<"U+1CA2", <<"U+10E2">> >>, <<"U+1CA3", <<"U+10E3">> >>, <<"U+1CA4", <<"U+10E4">> >>,
    <<"U+1CA5", <<"U+10E5">> >>, <<"U+1CA6", <<"U+10E6">> >>, <<"U+1CA7", <<"U+10E7">> >>,
    <<"U+1CA8", <<"U+10E8">> >>, <<"U+1CA9", <<"U+10E9">> >>, <<"U+1CAA", <<"U+10EA">> >>,
    <<"U+1CAB", <<"U+10EB">> >>, <<"U+1CAC", <<"U+10EC">> >>, <<"U+1CAD", <<"U+10ED">> >>,
    <<"U+1CAE", <<"U+10EE">> >>, <<"U+1CAF", <<"U+10EF">> >>, <<"U+1CB0", <<"U+10F0">> >>,
    <<"U+1CB1", <<"U+10F1">> >>, <<"U+1CB2", <<"U+10F2">> >>, <<"U+1CB3", <<"U+10F3">> >>,
    <<"U+1CB4", <<"U+10F4">> >>, <<"U+1CB5", <<"U+10F5">> >>, <<"U+1CB6", <<"U+10F6">> >>,
    <<"U+1CB7", <<"U+10F7">> >>, <<"U+1CB8", <<"U+10F8">> >>, <<"U+1CB9", <<"U+10F9">> >>,
    <<"U+1CBA", <<"U+10FA">> >>, <<"U+1CBD", <<"U+10FD">> >>, <<"U+1CBE", <<"U+10FE">> >>,
    <<"U+1CBF", <<"U+10FF">> >>, <<"U+1E00", <<"U+1E01">> >>, <<"U+1E02", <<"U+1E03">> >>,
    <<"U+1E04", <<"U+1E05">> >>, <<"U+1E06", <<"U+1E07">> >>, <<"U+1E08", <<"U+1E09">> >>,
    <<"U+1E0A", <<"U+1E0B">> >>, <<"U+1E0C", <<"U+1E0D">> >>, <<"U+1E0E", <<"U+1E0F">> >>,
    <<"U+1E10", <<"U+1E11">> >>, <<"U+1E12", <<"U+1E13">> >>, <<"U+1E14", <<"U+1E15">> >>,
    <<"U+1E16", <<"U+1E17">> >>, <<"U+1E18", <<"U+1E19">> >>, <<"U+1E1A", <<"U+1E1B">> >>,
    <<"U+1E1C", <<"U+1E1D">> >>, <<"U+1E1E", <<"U+1E1F">> >>, <<"U+1E20", <<"U+1E21">> >>,
    <<"U+1E22", <<"U+1E23">> >>, <<"U+1E24", <<"U+1E25">> >>, <<"U+1E26", <<"U+1E27">> >>,
    <<"U+1E28", <<"U+1E29">> >>, <<"U+1E2A", <<"U+1E2B">> >>, <<"U+1E2C", <<"U+1E2D">> >>,
    <<"U+1E2E", <<"U+1E2F">> >>, <<"U+1E30", <<"U+1E31">> >>, <<"U+1E32", <<"U+1E33">> >>,
    <<"U+1E34", <<"U+1E35">> >>, <<"U+1E36", <<"U+1E37">> >>, <<"U+1E38", <<"U+1E39">> >>,
    <<"U+1E3A", <<"U+1E3B">> >>, <<"U+1E3C", <<"U+1E3D">> >>, <<"U+1E3E", <<"U+1E3F">> >>,
    <<"U+1E40", <<"U+1E41">> >>, <<"U+1E42", <<"U+1E43">> >>, <<"U+1E44", <<"U+1E45">> >>,
    <<"U+1E46", <<"U+1E47">> >>, <<"U+1E48", <<"U+1E49">> >>, <<"U+1E4A", <<"U+1E4B">> >>,
    <<"U+1E4C", <<"U+1E4D">> >>, <<"U+1E4E", <<"U+1E4F">> >>, <<"U+1E50", <<"U+1E51">> >>,
    <<"U+1E52", <<"U+1E53">> >>, <<"U+1E54", <<"U+1E55">> >>, <<"U+1E56", <<"U+1E57">> >>,
    <<"U+1E58", <<"U+1E59">> >>, <<"U+1E5A", <<"U+1E5B">> >>, <<"U+1E5C", <<"U+1E5D">> >>,
    <<"U+1E5E", <<"U+1E5F">> >>, <<"U+1E60", <<"U+1E61">> >>, <<"U+1E62", <<"U+1E63">> >>,
    <<"U+1E64", <<"U+1E65">> >>, <<"U+1E66", <<"U+1E67">> >>, <<"U+1E68", <<"U+1E69">> >>,
    <<"U+1E6A", <<"U+1E6B">> >>, <<"U+1E6C", <<"U+1E6D">> >>, <<"U+1E6E", <<"U+1E6F">> >>,
    <<"U+1E70", <<"U+1E71">> >>, <<"U+1E72", <<"U+1E73">> >>, <<"U+1E74", <<"U+1E75">> >>,
    <<"U+1E76", <<"U+1E77">> >>, <<"U+1E78", <<"U+1E79">> >>, <<"U+1E7A", <<"U+1E7B">> >>,
    <<"U+1E7C", <<"U+1E7D">> >>, <<"U+1E7E", <<"U+1E7F">> >>, <<"U+1E80", <<"U+1E81">> >>,
    <<"U+1E82", <<"U+1E83">> >>, <<"U+1E84", <<"U+1E85">> >>, <<"U+1E86", <<"U+1E87">> >>,
    <<"U+1E88", <<"U+1E89">> >>, <<"U+1E8A", <<"U+1E8B">> >>, <<"U+1E8C", <<"U+1E8D">> >>,
    <<"U+1E8E", <<"U+1E8F">> >>, <<"U+1E90", <<"U+1E91">> >>, <<"U+1E92", <<"U+1E93">> >>,
    <<"U+1E94", <<"U+1E95">> >>, <<"U+1E96", <<"h","U+0331">> >>,
    <<"U+1E97", <<"t","U+0308">> >>, <<"U+1E98", <<"w","U+030A">> >>,
    <<"U+1E99", <<"y","U+030A">> >>, <<"U+1E9A", <<"a","U+02BE">> >>,
    <<"U+1E9B", <<"U+1E61">> >>, <<"U+1E9E", <<"s","s">> >>, <<"U+1EA0", <<"U+1EA1">> >>,
    <<"U+1EA2", <<"U+1EA3">> >>, <<"U+1EA4", <<"U+1EA5">> >>, <<"U+1EA6", <<"U+1EA7">> >>,
    <<"U+1EA8", <<"U+1EA9">> >>, <<"U+1EAA", <<"U+1EAB">> >>, <<"U+1EAC", <<"U+1EAD">> >>,
    <<"U+1EAE", <<"U+1EAF">> >>, <<"U+1EB0", <<"U+1EB1">> >>, <<"U+1EB2", <<"U+1EB3">> >>,
    <<"U+1EB4", <<"U+1EB5">> >>, <<"U+1EB6", <<"U+1EB7">> >>, <<"U+1EB8", <<"U+1EB9">> >>,
    <<"U+1EBA", <<"U+1EBB">> >>, <<"U+1EBC", <<"U+1EBD">> >>, <<"U+1EBE", <<"U+1EBF">> >>,
    <<"U+1EC0", <<"U+1EC1">> >>, <<"U+1EC2", <<"U+1EC3">> >>, <<"U+1EC4", <<"U+1EC5">> >>,
    <<"U+1EC6", <<"U+1EC7">> >>, <<"U+1EC8", <<"U+1EC9">> >>, <<"U+1ECA", <<"U+1ECB">> >>,
    <<"U+1ECC", <<"U+1ECD">> >>, <<"U+1ECE", <<"U+1ECF">> >>, <<"U+1ED0", <<"U+1ED1">> >>,
    <<"U+1ED2", <<"U+1ED3">> >>, <<"U+1ED4", <<"U+1ED5">> >>, <<"U+1ED6", <<"U+1ED7">> >>,
    <<"U+1ED8", <<"U+1ED9">> >>, <<"U+1EDA", <<"U+1EDB">> >>, <<"U+1EDC", <<"U+1EDD">> >>,
    <<"U+1EDE", <<"U+1EDF">> >>, <<"U+1EE0", <<"U+1EE1">> >>, <<"U+1EE2", <<"U+1EE3">> >>,
    <<"U+1EE4", <<"U+1EE5">> >>, <<"U+1EE6", <<"U+1EE7">> >>, <<"U+1EE8", <<"U+1EE9">> >>,
    <<"U+1EEA", <<"U+1EEB">> >>, <<"U+1EEC", <<"U+1EED">> >>, <<"U+1EEE", <<"U+1EEF">> >>,
    <<"U+1EF0", <<"U+1EF1">> >>, <<"U+1EF2", <<"U+1EF3">> >>, <<"U+1EF4", <<"U+1EF5">> >>,
    <<"U+1EF6", <<"U+1EF7">> >>, <<"U+1EF8", <<"U+1EF9">> >>, <<"U+1EFA", <<"U+1EFB">> >>,
    <<"U+1EFC", <<"U+1EFD">> >>, <<"U+1EFE", <<"U+1EFF">> >>, <<"U+1F08", <<"U+1F00">> >>,
    <<"U+1F09", <<"U+1F01">> >>, <<"U+1F0A", <<"U+1F02">> >>, <<"U+1F0B", <<"U+1F03">> >>,
    <<"U+1F0C", <<"U+1F04">> >>, <<"U+1F0D", <<"U+1F05">> >>, <<"U+1F0E", <<"U+1F06">> >>,
    <<"U+1F0F", <<"U+1F07">> >>, <<"U+1F18", <<"U+1F10">> >>, <<"U+1F19", <<"U+1F11">> >>,
    <<"U+1F1A", <<"U+1F12">> >>, <<"U+1F1B", <<"U+1F13">> >>, <<"U+1F1C", <<"U+1F14">> >>,
    <<"U+1F1D", <<"U+1F15">> >>, <<"U+1F28", <<"U+1F20">> >>, <<"U+1F29", <<"U+1F21">> >>,
    <<"U+1F2A", <<"U+1F22">> >>, <<"U+1F2B", <<"U+1F23">> >>, <<"U+1F2C", <<"U+1F24">> >>,
    <<"U+1F2D", <<"U+1F25">> >>, <<"U+1F2E", <<"U+1F26">> >>, <<"U+1F2F", <<"U+1F27">> >>,
    <<"U+1F38", <<"U+1F30">> >>, <<"U+1F39", <<"U+1F31">> >>, <<"U+1F3A", <<"U+1F32">> >>,
    <<"U+1F3B", <<"U+1F33">> >>, <<"U+1F3C", <<"U+1F34">> >>, <<"U+1F3D", <<"U+1F35">> >>,
    <<"U+1F3E", <<"U+1F36">> >>, <<"U+1F3F", <<"U+1F37">> >>, <<"U+1F48", <<"U+1F40">> >>,
    <<"U+1F49", <<"U+1F41">> >>, <<"U+1F4A", <<"U+1F42">> >>, <<"U+1F4B", <<"U+1F43">> >>,
    <<"U+1F4C", <<"U+1F44">> >>, <<"U+1F4D", <<"U+1F45">> >>,
    <<"U+1F50", <<"U+03C5","U+0313">> >>, <<"U+1F52", <<"U+03C5","U+0313","U+0300">> >>,
    <<"U+1F54", <<"U+03C5","U+0313","U+0301">> >>, <<"U+1F56", <<"U+03C5","U+0313","U+0342">> >>,
    <<"U+1F59", <<"U+1F51">> >>, <<"U+1F5B", <<"U+1F53">> >>, <<"U+1F5D", <<"U+1F55">> >>,
    <<"U+1F5F", <<"U+1F57">> >>, <<"U+1F68", <<"U+1F60">> >>, <<"U+1F69", <<"U+1F61">> >>,
    <<"U+1F6A", <<"U+1F62">> >>, <<"U+1F6B", <<"U+1F63">> >>, <<"U+1F6C", <<"U+1F64">> >>,
    <<"U+1F6D", <<"U+1F65">> >>, <<"U+1F6E", <<"U+1F66">> >>, <<"U+1F6F", <<"U+1F67">> >>,
    <<"U+1F80", <<"U+1F00","U+03B9">> >>, <<"U+1F81", <<"U+1F01","U+03B9">> >>,
    <<"U+1F82", <<"U+1F02","U+03B9">> >>, <<"U+1F83", <<"U+1F03","U+03B9">> >>,
    <<"U+1F84", <<"U+1F04","U+03B9">> >>, <<"U+1F85", <<"U+1F05","U+03B9">> >>,
    <<"U+1F86", <<"U+1F06","U+03B9">> >>, <<"U+1F87", <<"U+1F07","U+03B9">> >>,
    <<"U+1F88", <<"U+1F00","U+03B9">> >>, <<"U+1F89", <<"U+1F01","U+03B9">> >>,
    <<"U+1F8A", <<"U+1F02","U+03B9">> >>, <<"U+1F8B", <<"U+1F03","U+03B9">> >>,
    <<"U+1F8C", <<"U+1F04","U+03B9">> >>, <<"U+1F8D", <<"U+1F05","U+03B9">> >>,
    <<"U+1F8E", <<"U+1F06","U+03B9">> >>, <<"U+1F8F", <<"U+1F07","U+03B9">> >>,
    <<"U+1F90", <<"U+1F20","U+03B9">> >>, <<"U+1F91", <<"U+1F21","U+03B9">> >>,
    <<"U+1F92", <<"U+1F22","U+03B9">> >>, <<"U+1F93", <<"U+1F23","U+03B9">> >>,
    <<"U+1F94", <<"U+1F24","U+03B9">> >>, <<"U+1F95", <<"U+1F25","U+03B9">> >>,
    <<"U+1F96", <<"U+1F26","U+03B9">> >>, <<"U+1F97", <<"U+1F27","U+03B9">> >>,
    <<"U+1F98", <<"U+1F20","U+03B9">> >>, <<"U+1F99", <<"U+1F21","U+03B9">> >>,
    <<"U+1F9A", <<"U+1F22","U+03B9">> >>, <<"U+1F9B", <<"U+1F23","U+03B9">> >>,
    <<"U+1F9C", <<"U+1F24","U+03B9">> >>, <<"U+1F9D", <<"U+1F25","U+03B9">> >>,
    <<"U+1F9E", <<"U+1F26","U+03B9">> >>, <<"U+1F9F", <<"U+1F27","U+03B9">> >>,
    <<"U+1FA0", <<"U+1F60","U+03B9">> >>, <<"U+1FA1", <<"U+1F61","U+03B9">> >>,
    <<"U+1FA2", <<"U+1F62","U+03B9">> >>, <<"U+1FA3", <<"U+1F63","U+03B9">> >>,
    <<"U+1FA4", <<"U+1F64","U+03B9">> >>, <<"U+1FA5", <<"U+1F65","U+03B9">> >>,
    <<"U+1FA6", <<"U+1F66","U+03B9">> >>, <<"U+1FA7", <<"U+1F67","U+03B9">> >>,
    <<"U+1FA8", <<"U+1F60","U+03B9">> >>, <<"U+1FA9", <<"U+1F61","U+03B9">> >>,
    <<"U+1FAA", <<"U+1F62","U+03B9">> >>, <<"U+1FAB", <<"U+1F63","U+03B9">> >>,
    <<"U+1FAC", <<"U+1F64","U+03B9">> >>, <<"U+1FAD", <<"U+1F65","U+03B9">> >>,
    <<"U+1FAE", <<"U+1F66","U+03B9">> >>, <<"U+1FAF", <<"U+1F67","U+03B9">> >>,
    <<"U+1FB2", <<"U+1F70","U+03B9">> >>, <<"U+1FB3", <<"U+03B1","U+03B9">> >>,
    <<"U+1FB4", <<"U+03AC","U+03B9">> >>, <<"U+1FB6", <<"U+03B1","U+0342">> >>,
    <<"U+1FB7", <<"U+03B1","U+0342","U+03B9">> >>, <<"U+1FB8", <<"U+1FB0">> >>,
    <<"U+1FB9", <<"U+1FB1">> >>, <<"U+1FBA", <<"U+1F70">> >>, <<"U+1FBB", <<"U+1F71">> >>,
    <<"U+1FBC", <<"U+03B1","U+03B9">> >>, <<"U+1FBE", <<"U+03B9">> >>,
    <<"U+1FC2", <<"U+1F74","U+03B9">> >>, <<"U+1FC3", <<"U+03B7","U+03B9">> >>,
    <<"U+1FC4", <<"U+03AE","U+03B9">> >>, <<"U+1FC6", <<"U+03B7","U+0342">> >>,
    <<"U+1FC7", <<"U+03B7","U+0342","U+03B9">> >>, <<"U+1FC8", <<"U+1F72">> >>,
    <<"U+1FC9", <<"U+1F73">> >>, <<"U+1FCA", <<"U+1F74">> >>, <<"U+1FCB", <<"U+1F75">> >>,
    <<"U+1FCC", <<"U+03B7","U+03B9">> >>, <<"U+1FD2", <<"U+03B9","U+0308","U+0300">> >>,
    <<"U+1FD3", <<"U+03B9","U+0308","U+0301">> >>, <<"U+1FD6", <<"U+03B9","U+0342">> >>,
    <<"U+1FD7", <<"U+03B9","U+0308","U+0342">> >>, <<"U+1FD8", <<"U+1FD0">> >>,
    <<"U+1FD9", <<"U+1FD1">> >>, <<"U+1FDA", <<"U+1F76">> >>, <<"U+1FDB", <<"U+1F77">> >>,
    <<"U+1FE2", <<"U+03C5","U+0308","U+0300">> >>, <<"U+1FE3", <<"U+03C5","U+0308","U+0301">> >>,
    <<"U+1FE4", <<"U+03C1","U+0313">> >>, <<"U+1FE6", <<"U+03C5","U+0342">> >>,
    <<"U+1FE7", <<"U+03C5","U+0308","U+0342">> >>, <<"U+1FE8", <<"U+1FE0">> >>,
    <<"U+1FE9", <<"U+1FE1">> >>, <<"U+1FEA", <<"U+1F7A">> >>, <<"U+1FEB", <<"U+1F7B">> >>,
    <<"U+1FEC", <<"U+1FE5">> >>, <<"U+1FF2", <<"U+1F7C","U+03B9">> >>,
    <<"U+1FF3", <<"U+03C9","U+03B9">> >>, <<"U+1FF4", <<"U+03CE","U+03B9">> >>,
    <<"U+1FF6", <<"U+03C9","U+0342">> >>, <<"U+1FF7", <<"U+03C9","U+0342","U+03B9">> >>,
    <<"U+1FF8", <<"U+1F78">> >>, <<"U+1FF9", <<"U+1F79">> >>, <<"U+1FFA", <<"U+1F7C">> >>,
    <<"U+1FFB", <<"U+1F7D">> >>, <<"U+1FFC", <<"U+03C9","U+03B9">> >>,
    <<"U+2126", <<"U+03C9">> >>, <<"U+212A", <<"k">> >>, <<"U+212B", <<"å">> >>,
    <<"U+2132", <<"U+214E">> >>, <<"U+2160", <<"U+2170">> >>, <<"U+2161", <<"U+2171">> >>,
    <<"U+2162", <<"U+2172">> >>, <<"U+2163", <<"U+2173">> >>, <<"U+2164", <<"U+2174">> >>,
    <<"U+2165", <<"U+2175">> >>, <<"U+2166", <<"U+2176">> >>, <<"U+2167", <<"U+2177">> >>,
    <<"U+2168", <<"U+2178">> >>, <<"U+2169", <<"U+2179">> >>, <<"U+216A", <<"U+217A">> >>,
    <<"U+216B", <<"U+217B">> >>, <<"U+216C", <<"U+217C">> >>, <<"U+216D", <<"U+217D">> >>,
    <<"U+216E", <<"U+217E">> >>, <<"U+216F", <<"U+217F">> >>, <<"U+2183", <<"U+2184">> >>,
    <<"U+24B6", <<"U+24D0">> >>, <<"U+24B7", <<"U+24D1">> >>, <<"U+24B8", <<"U+24D2">> >>,
    <<"U+24B9", <<"U+24D3">> >>, <<"U+24BA", <<"U+24D4">> >>, <<"U+24BB", <<"U+24D5">> >>,
    <<"U+24BC", <<"U+24D6">> >>, <<"U+24BD", <<"U+24D7">> >>, <<"U+24BE", <<"U+24D8">> >>,
    <<"U+24BF", <<"U+24D9">> >>, <<"U+24C0", <<"U+24DA">> >>, <<"U+24C1", <<"U+24DB">> >>,
    <<"U+24C2", <<"U+24DC">> >>, <<"U+24C3", <<"U+24DD">> >>, <<"U+24C4", <<"U+24DE">> >>,
    <<"U+24C5", <<"U+24DF">> >>, <<"U+24C6", <<"U+24E0">> >>, <<"U+24C7", <<"U+24E1">> >>,
    <<"U+24C8", <<"U+24E2">> >>, <<"U+24C9", <<"U+24E3">> >>, <<"U+24CA", <<"U+24E4">> >>,
    <<"U+24CB", <<"U+24E5">> >>, <<"U+24CC", <<"U+24E6">> >>, <<"U+24CD", <<"U+24E7">> >>,
    <<"U+24CE", <<"U+24E8">> >>, <<"U+24CF", <<"U+24E9">> >>, <<"U+2C00", <<"U+2C30">> >>,
    <<"U+2C01", <<"U+2C31">> >>, <<"U+2C02", <<"U+2C32">> >>, <<"U+2C03", <<"U+2C33">> >>,
    <<"U+2C04", <<"U+2C34">> >>, <<"U+2C05", <<"U+2C35">> >>, <<"U+2C06", <<"U+2C36">> >>,
    <<"U+2C07", <<"U+2C37">> >>, <<"U+2C08", <<"U+2C38">> >>, <<"U+2C09", <<"U+2C39">> >>,
    <<"U+2C0A", <<"U+2C3A">> >>, <<"U+2C0B", <<"U+2C3B">> >>, <<"U+2C0C", <<"U+2C3C">> >>,
    <<"U+2C0D", <<"U+2C3D">> >>, <<"U+2C0E", <<"U+2C3E">> >>, <<"U+2C0F", <<"U+2C3F">> >>,
    <<"U+2C10", <<"U+2C40">> >>, <<"U+2C11", <<"U+2C41">> >>, <<"U+2C12", <<"U+2C42">> >>,
    <<"U+2C13", <<"U+2C43">> >>, <<"U+2C14", <<"U+2C44">> >>, <<"U+2C15", <<"U+2C45">> >>,
    <<"U+2C16", <<"U+2C46">> >>, <<"U+2C17", <<"U+2C47">> >>, <<"U+2C18", <<"U+2C48">> >>,
    <<"U+2C19", <<"U+2C49">> >>, <<"U+2C1A", <<"U+2C4A">> >>, <<"U+2C1B", <<"U+2C4B">> >>,
    <<"U+2C1C", <<"U+2C4C">> >>, <<"U+2C1D", <<"U+2C4D">> >>, <<"U+2C1E", <<"U+2C4E">> >>,
    <<"U+2C1F", <<"U+2C4F">> >>, <<"U+2C20", <<"U+2C50">> >>, <<"U+2C21", <<"U+2C51">> >>,
    <<"U+2C22", <<"U+2C52">> >>, <<"U+2C23", <<"U+2C53">> >>, <<"U+2C24", <<"U+2C54">> >>,
    <<"U+2C25", <<"U+2C55">> >>, <<"U+2C26", <<"U+2C56">> >>, <<"U+2C27", <<"U+2C57">> >>,
    <<"U+2C28", <<"U+2C58">> >>, <<"U+2C29", <<"U+2C59">> >>, <<"U+2C2A", <<"U+2C5A">> >>,
    <<"U+2C2B", <<"U+2C5B">> >>, <<"U+2C2C", <<"U+2C5C">> >>, <<"U+2C2D", <<"U+2C5D">> >>,
    <<"U+2C2E", <<"U+2C5E">> >>, <<"U+2C2F", <<"U+2C5F">> >>, <<"U+2C60", <<"U+2C61">> >>,
    <<"U+2C62", <<"U+026B">> >>, <<"U+2C63", <<"U+1D7D">> >>, <<"U+2C64", <<"U+027D">> >>,
    <<"U+2C67", <<"U+2C68">> >>, <<"U+2C69", <<"U+2C6A">> >>, <<"U+2C6B", <<"U+2C6C">> >>,
    <<"U+2C6D", <<"U+0251">> >>, <<"U+2C6E", <<"U+0271">> >>, <<"U+2C6F", <<"U+0250">> >>,
    <<"U+2C70", <<"U+0252">> >>, <<"U+2C72", <<"U+2C73">> >>, <<"U+2C75", <<"U+2C76">> >>,
    <<"U+2C7E", <<"U+023F">> >>, <<"U+2C7F", <<"U+0240">> >>, <<"U+2C80", <<"U+2C81">> >>,
    <<"U+2C82", <<"U+2C83">> >>, <<"U+2C84", <<"U+2C85">> >>, <<"U+2C86", <<"U+2C87">> >>,
    <<"U+2C88", <<"U+2C89">> >>, <<"U+2C8A", <<"U+2C8B">> >>, <<"U+2C8C", <<"U+2C8D">> >>,
    <<"U+2C8E", <<"U+2C8F">> >>, <<"U+2C90", <<"U+2C91">> >>, <<"U+2C92", <<"U+2C93">> >>,
    <<"U+2C94", <<"U+2C95">> >>, <<"U+2C96", <<"U+2C97">> >>, <<"U+2C98", <<"U+2C99">> >>,
    <<"U+2C9A", <<"U+2C9B">> >>, <<"U+2C9C", <<"U+2C9D">> >>, <<"U+2C9E", <<"U+2C9F">> >>,
    <<"U+2CA0", <<"U+2CA1">> >>, <<"U+2CA2", <<"U+2CA3">> >>, <<"U+2CA4", <<"U+2CA5">> >>,
    <<"U+2CA6", <<"U+2CA7">> >>, <<"U+2CA8", <<"U+2CA9">> >>, <<"U+2CAA", <<"U+2CAB">> >>,
    <<"U+2CAC", <<"U+2CAD">> >>, <<"U+2CAE", <<"U+2CAF">> >>, <<"U+2CB0", <<"U+2CB1">> >>,
    <<"U+2CB2", <<"U+2CB3">> >>, <<"U+2CB4", <<"U+2CB5">> >>, <<"U+2CB6", <<"U+2CB7">> >>,
    <<"U+2CB8", <<"U+2CB9">> >>, <<"U+2CBA", <<"U+2CBB">> >>, <<"U+2CBC", <<"U+2CBD">> >>,
    <<"U+2CBE", <<"U+2CBF">> >>, <<"U+2CC0", <<"U+2CC1">> >>, <<"U+2CC2", <<"U+2CC3">> >>,
    <<"U+2CC4", <<"U+2CC5">> >>, <<"U+2CC6", <<"U+2CC7">> >>, <<"U+2CC8", <<"U+2CC9">> >>,
    <<"U+2CCA", <<"U+2CCB">> >>, <<"U+2CCC", <<"U+2CCD">> >>, <<"U+2CCE", <<"U+2CCF">> >>,
    <<"U+2CD0", <<"U+2CD1">> >>, <<"U+2CD2", <<"U+2CD3">> >>, <<"U+2CD4", <<"U+2CD5">> >>,
    <<"U+2CD6", <<"U+2CD7">> >>, <<"U+2CD8", <<"U+2CD9">> >>, <<"U+2CDA", <<"U+2CDB">> >>,
    <<"U+2CDC", <<"U+2CDD">> >>, <<"U+2CDE", <<"U+2CDF">> >>, <<"U+2CE0", <<"U+2CE1">> >>,
    <<"U+2CE2", <<"U+2CE3">> >>, <<"U+2CEB", <<"U+2CEC">> >>, <<"U+2CED", <<"U+2CEE">> >>,
    <<"U+2CF2", <<"U+2CF3">> >>, <<"U+A640", <<"U+A641">> >>, <<"U+A642", <<"U+A643">> >>,
    <<"U+A644", <<"U+A645">> >>, <<"U+A646", <<"U+A647">> >>, <<"U+A648", <<"U+A649">> >>,
    <<"U+A64A", <<"U+A64B">> >>, <<"U+A64C", <<"U+A64D">> >>, <<"U+A64E", <<"U+A64F">> >>,
    <<"U+A650", <<"U+A651">> >>, <<"U+A652", <<"U+A653">> >>, <<"U+A654", <<"U+A655">> >>,
    <<"U+A656", <<"U+A657">> >>, <<"U+A658", <<"U+A659">> >>, <<"U+A65A", <<"U+A65B">> >>,
    <<"U+A65C", <<"U+A65D">> >>, <<"U+A65E", <<"U+A65F">> >>, <<"U+A660", <<"U+A661">> >>,
    <<"U+A662", <<"U+A663">> >>, <<"U+A664", <<"U+A665">> >>, <<"U+A666", <<"U+A667">> >>,
    <<"U+A668", <<"U+A669">> >>, <<"U+A66A", <<"U+A66B">> >>, <<"U+A66C", <<"U+A66D">> >>,
    <<"U+A680", <<"U+A681">> >>, <<"U+A682", <<"U+A683">> >>, <<"U+A684", <<"U+A685">> >>,
    <<"U+A686", <<"U+A687">> >>, <<"U+A688", <<"U+A689">> >>, <<"U+A68A", <<"U+A68B">> >>,
    <<"U+A68C", <<"U+A68D">> >>, <<"U+A68E", <<"U+A68F">> >>, <<"U+A690", <<"U+A691">> >>,
    <<"U+A692", <<"U+A693">> >>, <<"U+A694", <<"U+A695">> >>, <<"U+A696", <<"U+A697">> >>,
    <<"U+A698", <<"U+A699">> >>, <<"U+A69A", <<"U+A69B">> >>, <<"U+A722", <<"U+A723">> >>,
    <<"U+A724", <<"U+A725">> >>, <<"U+A726", <<"U+A727">> >>, <<"U+A728", <<"U+A729">> >>,
    <<"U+A72A", <<"U+A72B">> >>, <<"U+A72C", <<"U+A72D">> >>, <<"U+A72E", <<"U+A72F">> >>,
    <<"U+A732", <<"U+A733">> >>, <<"U+A734", <<"U+A735">> >>, <<"U+A736", <<"U+A737">> >>,
    <<"U+A738", <<"U+A739">> >>, <<"U+A73A", <<"U+A73B">> >>, <<"U+A73C", <<"U+A73D">> >>,
    <<"U+A73E", <<"U+A73F">> >>, <<"U+A740", <<"U+A741">> >>, <<"U+A742", <<"U+A743">> >>,
    <<"U+A744", <<"U+A745">> >>, <<"U+A746", <<"U+A747">> >>, <<"U+A748", <<"U+A749">> >>,
    <<"U+A74A", <<"U+A74B">> >>, <<"U+A74C", <<"U+A74D">> >>, <<"U+A74E", <<"U+A74F">> >>,
    <<"U+A750", <<"U+A751">> >>, <<"U+A752", <<"U+A753">> >>, <<"U+A754", <<"U+A755">> >>,
    <<"U+A756", <<"U+A757">> >>, <<"U+A758", <<"U+A759">> >>, <<"U+A75A", <<"U+A75B">> >>,
    <<"U+A75C", <<"U+A75D">> >>, <<"U+A75E", <<"U+A75F">> >>, <<"U+A760", <<"U+A761">> >>,
    <<"U+A762", <<"U+A763">> >>, <<"U+A764", <<"U+A765">> >>, <<"U+A766", <<"U+A767">> >>,
    <<"U+A768", <<"U+A769">> >>, <<"U+A76A", <<"U+A76B">> >>, <<"U+A76C", <<"U+A76D">> >>,
    <<"U+A76E", <<"U+A76F">> >>, <<"U+A779", <<"U+A77A">> >>, <<"U+A77B", <<"U+A77C">> >>,
    <<"U+A77D", <<"U+1D79">> >>, <<"U+A77E", <<"U+A77F">> >>, <<"U+A780", <<"U+A781">> >>,
    <<"U+A782", <<"U+A783">> >>, <<"U+A784", <<"U+A785">> >>, <<"U+A786", <<"U+A787">> >>,
    <<"U+A78B", <<"U+A78C">> >>, <<"U+A78D", <<"U+0265">> >>, <<"U+A790", <<"U+A791">> >>,
    <<"U+A792", <<"U+A793">> >>, <<"U+A796", <<"U+A797">> >>, <<"U+A798", <<"U+A799">> >>,
    <<"U+A79A", <<"U+A79B">> >>, <<"U+A79C", <<"U+A79D">> >>, <<"U+A79E", <<"U+A79F">> >>,
    <<"U+A7A0", <<"U+A7A1">> >>, <<"U+A7A2", <<"U+A7A3">> >>, <<"U+A7A4", <<"U+A7A5">> >>,
    <<"U+A7A6", <<"U+A7A7">> >>, <<"U+A7A8", <<"U+A7A9">> >>, <<"U+A7AA", <<"U+0266">> >>,
    <<"U+A7AB", <<"U+025C">> >>, <<"U+A7AC", <<"U+0261">> >>, <<"U+A7AD", <<"U+026C">> >>,
    <<"U+A7AE", <<"U+026A">> >>, <<"U+A7B0", <<"U+029E">> >>, <<"U+A7B1", <<"U+0287">> >>,
    <<"U+A7B2", <<"U+029D">> >>, <<"U+A7B3", <<"U+AB53">> >>, <<"U+A7B4", <<"U+A7B5">> >>,
    <<"U+A7B6", <<"U+A7B7">> >>, <<"U+A7B8", <<"U+A7B9">> >>, <<"U+A7BA", <<"U+A7BB">> >>,
    <<"U+A7BC", <<"U+A7BD">> >>, <<"U+A7BE", <<"U+A7BF">> >>, <<"U+A7C0", <<"U+A7C1">> >>,
    <<"U+A7C2", <<"U+A7C3">> >>, <<"U+A7C4", <<"U+A794">> >>, <<"U+A7C5", <<"U+0282">> >>,
    <<"U+A7C6", <<"U+1D8E">> >>, <<"U+A7C7", <<"U+A7C8">> >>, <<"U+A7C9", <<"U+A7CA">> >>,
    <<"U+A7D0", <<"U+A7D1">> >>, <<"U+A7D6", <<"U+A7D7">> >>, <<"U+A7D8", <<"U+A7D9">> >>,
    <<"U+A7F5", <<"U+A7F6">> >>, <<"U+AB70", <<"U+13A0">> >>, <<"U+AB71", <<"U+13A1">> >>,
    <<"U+AB72", <<"U+13A2">> >>, <<"U+AB73", <<"U+13A3">> >>, <<"U+AB74", <<"U+13A4">> >>,
    <<"U+AB75", <<"U+13A5">> >>, <<"U+AB76", <<"U+13A6">> >>, <<"U+AB77", <<"U+13A7">> >>,
    <<"U+AB78", <<"U+13A8">> >>, <<"U+AB79", <<"U+13A9">> >>, <<"U+AB7A", <<"U+13AA">> >>,
    <<"U+AB7B", <<"U+13AB">> >>, <<"U+AB7C", <<"U+13AC">> >>, <<"U+AB7D", <<"U+13AD">> >>,
    <<"U+AB7E", <<"U+13AE">> >>, <<"U+AB7F", <<"U+13AF">> >>, <<"U+AB80", <<"U+13B0">> >>,
    <<"U+AB81", <<"U+13B1">> >>, <<"U+AB82", <<"U+13B2">> >>, <<"U+AB83", <<"U+13B3">> >>,
    <<"U+AB84", <<"U+13B4">> >>, <<"U+AB85", <<"U+13B5">> >>, <<"U+AB86", <<"U+13B6">> >>,
    <<"U+AB87", <<"U+13B7">> >>, <<"U+AB88", <<"U+13B8">> >>, <<"U+AB89", <<"U+13B9">> >>,
    <<"U+AB8A", <<"U+13BA">> >>, <<"U+AB8B", <<"U+13BB">> >>, <<"U+AB8C", <<"U+13BC">> >>,
    <<"U+AB8D", <<"U+13BD">> >>, <<"U+AB8E", <<"U+13BE">> >>, <<"U+AB8F", <<"U+13BF">> >>,
    <<"U+AB90", <<"U+13C0">> >>, <<"U+AB91", <<"U+13C1">> >>, <<"U+AB92", <<"U+13C2">> >>,
    <<"U+AB93", <<"U+13C3">> >>, <<"U+AB94", <<"U+13C4">> >>, <<"U+AB95", <<"U+13C5">> >>,
    <<"U+AB96", <<"U+13C6">> >>, <<"U+AB97", <<"U+13C7">> >>, <<"U+AB98", <<"U+13C8">> >>,
    <<"U+AB99", <<"U+13C9">> >>, <<"U+AB9A", <<"U+13CA">> >>, <<"U+AB9B", <<"U+13CB">> >>,
    <<"U+AB9C", <<"U+13CC">> >>, <<"U+AB9D", <<"U+13CD">> >>, <<"U+AB9E", <<"U+13CE">> >>,
    <<"U+AB9F", <<"U+13CF">> >>, <<"U+ABA0", <<"U+13D0">> >>, <<"U+ABA1", <<"U+13D1">> >>,
    <<"U+ABA2", <<"U+13D2">> >>, <<"U+ABA3", <<"U+13D3">> >>, <<"U+ABA4", <<"U+13D4">> >>,
    <<"U+ABA5", <<"U+13D5">> >>, <<"U+ABA6", <<"U+13D6">> >>, <<"U+ABA7", <<"U+13D7">> >>,
    <<"U+ABA8", <<"U+13D8">> >>, <<"U+ABA9", <<"U+13D9">> >>, <<"U+ABAA", <<"U+13DA">> >>,
    <<"U+ABAB", <<"U+13DB">> >>, <<"U+ABAC", <<"U+13DC">> >>, <<"U+ABAD", <<"U+13DD">> >>,
    <<"U+ABAE", <<"U+13DE">> >>, <<"U+ABAF", <<"U+13DF">> >>, <<"U+ABB0", <<"U+13E0">> >>,
    <<"U+ABB1", <<"U+13E1">> >>, <<"U+ABB2", <<"U+13E2">> >>, <<"U+ABB3", <<"U+13E3">> >>,
    <<"U+ABB4", <<"U+13E4">> >>, <<"U+ABB5", <<"U+13E5">> >>, <<"U+ABB6", <<"U+13E6">> >>,
    <<"U+ABB7", <<"U+13E7">> >>, <<"U+ABB8", <<"U+13E8">> >>, <<"U+ABB9", <<"U+13E9">> >>,
    <<"U+ABBA", <<"U+13EA">> >>, <<"U+ABBB", <<"U+13EB">> >>, <<"U+ABBC", <<"U+13EC">> >>,
    <<"U+ABBD", <<"U+13ED">> >>, <<"U+ABBE", <<"U+13EE">> >>, <<"U+ABBF", <<"U+13EF">> >>,
    <<"U+FB00", <<"f","f">> >>, <<"U+FB01", <<"f","i">> >>, <<"U+FB02", <<"f","l">> >>,
    <<"U+FB03", <<"f","f","i">> >>, <<"U+FB04", <<"f","f","l">> >>, <<"U+FB05", <<"s","t">> >>,
    <<"U+FB06", <<"s","t">> >>, <<"U+FB13", <<"U+0574","U+0576">> >>,
    <<"U+FB14", <<"U+0574","U+0565">> >>, <<"U+FB15", <<"U+0574","U+056B">> >>,
    <<"U+FB16", <<"U+057E","U+0576">> >>, <<"U+FB17", <<"U+0574","U+056D">> >>,
    <<"U+FF21", <<"U+FF41">> >>, <<"U+FF22", <<"U+FF42">> >>, <<"U+FF23", <<"U+FF43">> >>,
    <<"U+FF24", <<"U+FF44">> >>, <<"U+FF25", <<"U+FF45">> >>, <<"U+FF26", <<"U+FF46">> >>,
    <<"U+FF27", <<"U+FF47">> >>, <<"U+FF28", <<"U+FF48">> >>, <<"U+FF29", <<"U+FF49">> >>,
    <<"U+FF2A", <<"U+FF4A">> >>, <<"U+FF2B", <<"U+FF4B">> >>, <<"U+FF2C", <<"U+FF4C">> >>,
    <<"U+FF2D", <<"U+FF4D">> >>, <<"U+FF2E", <<"U+FF4E">> >>, <<"U+FF2F", <<"U+FF4F">> >>,
    <<"U+FF30", <<"U+FF50">> >>, <<"U+FF31", <<"U+FF51">> >>, <<"U+FF32", <<"U+FF52">> >>,
    <<"U+FF33", <<"U+FF53">> >>, <<"U+FF34", <<"U+FF54">> >>, <<"U+FF35", <<"U+FF55">> >>,
    <<"U+FF36", <<"U+FF56">> >>, <<"U+FF37", <<"U+FF57">> >>, <<"U+FF38", <<"U+FF58">> >>,
    <<"U+FF39", <<"U+FF59">> >>, <<"U+FF3A", <<"U+FF5A">> >>, <<"U+10400", <<"U+10428">> >>,
    <<"U+10401", <<"U+10429">> >>, <<"U+10402", <<"U+1042A">> >>, <<"U+10403", <<"U+1042B">> >>,
    <<"U+10404", <<"U+1042C">> >>, <<"U+10405", <<"U+1042D">> >>, <<"U+10406", <<"U+1042E">> >>,
    <<"U+10407", <<"U+1042F">> >>, <<"U+10408", <<"U+10430">> >>, <<"U+10409", <<"U+10431">> >>,
    <<"U+1040A", <<"U+10432">> >>, <<"U+1040B", <<"U+10433">> >>, <<"U+1040C", <<"U+10434">> >>,
    <<"U+1040D", <<"U+10435">> >>, <<"U+1040E", <<"U+10436">> >>, <<"U+1040F", <<"U+10437">> >>,
    <<"U+10410", <<"U+10438">> >>, <<"U+10411", <<"U+10439">> >>, <<"U+10412", <<"U+1043A">> >>,
    <<"U+10413", <<"U+1043B">> >>, <<"U+10414", <<"U+1043C">> >>, <<"U+10415", <<"U+1043D">> >>,
    <<"U+10416", <<"U+1043E">> >>, <<"U+10417", <<"U+1043F">> >>, <<"U+10418", <<"U+10440">> >>,
    <<"U+10419", <<"U+10441">> >>, <<"U+1041A", <<"U+10442">> >>, <<"U+1041B", <<"U+10443">> >>,
    <<"U+1041C", <<"U+10444">> >>, <<"U+1041D", <<"U+10445">> >>, <<"U+1041E", <<"U+10446">> >>,
    <<"U+1041F", <<"U+10447">> >>, <<"U+10420", <<"U+10448">> >>, <<"U+10421", <<"U+10449">> >>,
    <<"U+10422", <<"U+1044A">> >>, <<"U+10423", <<"U+1044B">> >>, <<"U+10424", <<"U+1044C">> >>,
    <<"U+10425", <<"U+1044D">> >>, <<"U+10426", <<"U+1044E">> >>, <<"U+10427", <<"U+1044F">> >>,
    <<"U+104B0", <<"U+104D8">> >>, <<"U+104B1", <<"U+104D9">> >>, <<"U+104B2", <<"U+104DA">> >>,
    <<"U+104B3", <<"U+104DB">> >>, <<"U+104B4", <<"U+104DC">> >>, <<"U+104B5", <<"U+104DD">> >>,
    <<"U+104B6", <<"U+104DE">> >>, <<"U+104B7", <<"U+104DF">> >>, <<"U+104B8", <<"U+104E0">> >>,
    <<"U+104B9", <<"U+104E1">> >>, <<"U+104BA", <<"U+104E2">> >>, <<"U+104BB", <<"U+104E3">> >>,
    <<"U+104BC", <<"U+104E4">> >>, <<"U+104BD", <<"U+104E5">> >>, <<"U+104BE", <<"U+104E6">> >>,
    <<"U+104BF", <<"U+104E7">> >>, <<"U+104C0", <<"U+104E8">> >>, <<"U+104C1", <<"U+104E9">> >>,
    <<"U+104C2", <<"U+104EA">> >>, <<"U+104C3", <<"U+104EB">> >>, <<"U+104C4", <<"U+104EC">> >>,
    <<"U+104C5", <<"U+104ED">> >>, <<"U+104C6", <<"U+104EE">> >>, <<"U+104C7", <<"U+104EF">> >>,
    <<"U+104C8", <<"U+104F0">> >>, <<"U+104C9", <<"U+104F1">> >>, <<"U+104CA", <<"U+104F2">> >>,
    <<"U+104CB", <<"U+104F3">> >>, <<"U+104CC", <<"U+104F4">> >>, <<"U+104CD", <<"U+104F5">> >>,
    <<"U+104CE", <<"U+104F6">> >>, <<"U+104CF", <<"U+104F7">> >>, <<"U+104D0", <<"U+104F8">> >>,
    <<"U+104D1", <<"U+104F9">> >>, <<"U+104D2", <<"U+104FA">> >>, <<"U+104D3", <<"U+104FB">> >>,
    <<"U+10570", <<"U+10597">> >>, <<"U+10571", <<"U+10598">> >>, <<"U+10572", <<"U+10599">> >>,
    <<"U+10573", <<"U+1059A">> >>, <<"U+10574", <<"U+1059B">> >>, <<"U+10575", <<"U+1059C">> >>,
    <<"U+10576", <<"U+1059D">> >>, <<"U+10577", <<"U+1059E">> >>, <<"U+10578", <<"U+1059F">> >>,
    <<"U+10579", <<"U+105A0">> >>, <<"U+1057A", <<"U+105A1">> >>, <<"U+1057C", <<"U+105A3">> >>,
    <<"U+1057D", <<"U+105A4">> >>, <<"U+1057E", <<"U+105A5">> >>, <<"U+1057F", <<"U+105A6">> >>,
    <<"U+10580", <<"U+105A7">> >>, <<"U+10581", <<"U+105A8">> >>, <<"U+10582", <<"U+105A9">> >>,
    <<"U+10583", <<"U+105AA">> >>, <<"U+10584", <<"U+105AB">> >>, <<"U+10585", <<"U+105AC">> >>,
    <<"U+10586", <<"U+105AD">> >>, <<"U+10587", <<"U+105AE">> >>, <<"U+10588", <<"U+105AF">> >>,
    <<"U+10589", <<"U+105B0">> >>, <<"U+1058A", <<"U+105B1">> >>, <<"U+1058C", <<"U+105B3">> >>,
    <<"U+1058D", <<"U+105B4">> >>, <<"U+1058E", <<"U+105B5">> >>, <<"U+1058F", <<"U+105B6">> >>,
    <<"U+10590", <<"U+105B7">> >>, <<"U+10591", <<"U+105B8">> >>, <<"U+10592", <<"U+105B9">> >>,
    <<"U+10594", <<"U+105BB">> >>, <<"U+10595", <<"U+105BC">> >>, <<"U+10C80", <<"U+10CC0">> >>,
    <<"U+10C81", <<"U+10CC1">> >>, <<"U+10C82", <<"U+10CC2">> >>, <<"U+10C83", <<"U+10CC3">> >>,
    <<"U+10C84", <<"U+10CC4">> >>, <<"U+10C85", <<"U+10CC5">> >>, <<"U+10C86", <<"U+10CC6">> >>,
    <<"U+10C87", <<"U+10CC7">> >>, <<"U+10C88", <<"U+10CC8">> >>, <<"U+10C89", <<"U+10CC9">> >>,
    <<"U+10C8A", <<"U+10CCA">> >>, <<"U+10C8B", <<"U+10CCB">> >>, <<"U+10C8C", <<"U+10CCC">> >>,
    <<"U+10C8D", <<"U+10CCD">> >>, <<"U+10C8E", <<"U+10CCE">> >>, <<"U+10C8F", <<"U+10CCF">> >>,
    <<"U+10C90", <<"U+10CD0">> >>, <<"U+10C91", <<"U+10CD1">> >>, <<"U+10C92", <<"U+10CD2">> >>,
    <<"U+10C93", <<"U+10CD3">> >>, <<"U+10C94", <<"U+10CD4">> >>, <<"U+10C95", <<"U+10CD5">> >>,
    <<"U+10C96", <<"U+10CD6">> >>, <<"U+10C97", <<"U+10CD7">> >>, <<"U+10C98", <<"U+10CD8">> >>,
    <<"U+10C99", <<"U+10CD9">> >>, <<"U+10C9A", <<"U+10CDA">> >>, <<"U+10C9B", <<"U+10CDB">> >>,
    <<"U+10C9C", <<"U+10CDC">> >>, <<"U+10C9D", <<"U+10CDD">> >>, <<"U+10C9E", <<"U+10CDE">> >>,
    <<"U+10C9F", <<"U+10CDF">> >>, <<"U+10CA0", <<"U+10CE0">> >>, <<"U+10CA1", <<"U+10CE1">> >>,
    <<"U+10CA2", <<"U+10CE2">> >>, <<"U+10CA3", <<"U+10CE3">> >>, <<"U+10CA4", <<"U+10CE4">> >>,
    <<"U+10CA5", <<"U+10CE5">> >>, <<"U+10CA6", <<"U+10CE6">> >>, <<"U+10CA7", <<"U+10CE7">> >>,
    <<"U+10CA8", <<"U+10CE8">> >>, <<"U+10CA9", <<"U+10CE9">> >>, <<"U+10CAA", <<"U+10CEA">> >>,
    <<"U+10CAB", <<"U+10CEB">> >>, <<"U+10CAC", <<"U+10CEC">> >>, <<"U+10CAD", <<"U+10CED">> >>,
    <<"U+10CAE", <<"U+10CEE">> >>, <<"U+10CAF", <<"U+10CEF">> >>, <<"U+10CB0", <<"U+10CF0">> >>,
    <<"U+10CB1", <<"U+10CF1">> >>, <<"U+10CB2", <<"U+10CF2">> >>, <<"U+118A0", <<"U+118C0">> >>,
    <<"U+118A1", <<"U+118C1">> >>, <<"U+118A2", <<"U+118C2">> >>, <<"U+118A3", <<"U+118C3">> >>,
    <<"U+118A4", <<"U+118C4">> >>, <<"U+118A5", <<"U+118C5">> >>, <<"U+118A6", <<"U+118C6">> >>,
    <<"U+118A7", <<"U+118C7">> >>, <<"U+118A8", <<"U+118C8">> >>, <<"U+118A9", <<"U+118C9">> >>,
    <<"U+118AA", <<"U+118CA">> >>, <<"U+118AB", <<"U+118CB">> >>, <<"U+118AC", <<"U+118CC">> >>,
    <<"U+118AD", <<"U+118CD">> >>, <<"U+118AE", <<"U+118CE">> >>, <<"U+118AF", <<"U+118CF">> >>,
    <<"U+118B0", <<"U+118D0">> >>, <<"U+118B1", <<"U+118D1">> >>, <<"U+118B2", <<"U+118D2">> >>,
    <<"U+118B3", <<"U+118D3">> >>, <<"U+118B4", <<"U+118D4">> >>, <<"U+118B5", <<"U+118D5">> >>,
    <<"U+118B6", <<"U+118D6">> >>, <<"U+118B7", <<"U+118D7">> >>, <<"U+118B8", <<"U+118D8">> >>,
    <<"U+118B9", <<"U+118D9">> >>, <<"U+118BA", <<"U+118DA">> >>, <<"U+118BB", <<"U+118DB">> >>,
    <<"U+118BC", <<"U+118DC">> >>, <<"U+118BD", <<"U+118DD">> >>, <<"U+118BE", <<"U+118DE">> >>,
    <<"U+118BF", <<"U+118DF">> >>, <<"U+16E40", <<"U+16E60">> >>, <<"U+16E41", <<"U+16E61">> >>,
    <<"U+16E42", <<"U+16E62">> >>, <<"U+16E43", <<"U+16E63">> >>, <<"U+16E44", <<"U+16E64">> >>,
    <<"U+16E45", <<"U+16E65">> >>, <<"U+16E46", <<"U+16E66">> >>, <<"U+16E47", <<"U+16E67">> >>,
    <<"U+16E48", <<"U+16E68">> >>, <<"U+16E49", <<"U+16E69">> >>, <<"U+16E4A", <<"U+16E6A">> >>,
    <<"U+16E4B", <<"U+16E6B">> >>, <<"U+16E4C", <<"U+16E6C">> >>, <<"U+16E4D", <<"U+16E6D">> >>,
    <<"U+16E4E", <<"U+16E6E">> >>, <<"U+16E4F", <<"U+16E6F">> >>, <<"U+16E50", <<"U+16E70">> >>,
    <<"U+16E51", <<"U+16E71">> >>, <<"U+16E52", <<"U+16E72">> >>, <<"U+16E53", <<"U+16E73">> >>,
    <<"U+16E54", <<"U+16E74">> >>, <<"U+16E55", <<"U+16E75">> >>, <<"U+16E56", <<"U+16E76">> >>,
    <<"U+16E57", <<"U+16E77">> >>, <<"U+16E58", <<"U+16E78">> >>, <<"U+16E59", <<"U+16E79">> >>,
    <<"U+16E5A", <<"U+16E7A">> >>, <<"U+16E5B", <<"U+16E7B">> >>, <<"U+16E5C", <<"U+16E7C">> >>,
    <<"U+16E5D", <<"U+16E7D">> >>, <<"U+16E5E", <<"U+16E7E">> >>, <<"U+16E5F", <<"U+16E7F">> >>,
    <<"U+1E900", <<"U+1E922">> >>, <<"U+1E901", <<"U+1E923">> >>, <<"U+1E902", <<"U+1E924">> >>,
    <<"U+1E903", <<"U+1E925">> >>, <<"U+1E904", <<"U+1E926">> >>, <<"U+1E905", <<"U+1E927">> >>,
    <<"U+1E906", <<"U+1E928">> >>, <<"U+1E907", <<"U+1E929">> >>, <<"U+1E908", <<"U+1E92A">> >>,
    <<"U+1E909", <<"U+1E92B">> >>, <<"U+1E90A", <<"U+1E92C">> >>, <<"U+1E90B", <<"U+1E92D">> >>,
    <<"U+1E90C", <<"U+1E92E">> >>, <<"U+1E90D", <<"U+1E92F">> >>, <<"U+1E90E", <<"U+1E930">> >>,
    <<"U+1E90F", <<"U+1E931">> >>, <<"U+1E910", <<"U+1E932">> >>, <<"U+1E911", <<"U+1E933">> >>,
    <<"U+1E912", <<"U+1E934">> >>, <<"U+1E913", <<"U+1E935">> >>, <<"U+1E914", <<"U+1E936">> >>,
    <<"U+1E915", <<"U+1E937">> >>, <<"U+1E916", <<"U+1E938">> >>, <<"U+1E917", <<"U+1E939">> >>,
    <<"U+1E918", <<"U+1E93A">> >>, <<"U+1E919", <<"U+1E93B">> >>, <<"U+1E91A", <<"U+1E93C">> >>,
    <<"U+1E91B", <<"U+1E93D">> >>, <<"U+1E91C", <<"U+1E93E">> >>, <<"U+1E91D", <<"U+1E93F">> >>,
    <<"U+1E91E", <<"U+1E940">> >>, <<"U+1E91F", <<"U+1E941">> >>, <<"U+1E920", <<"U+1E942">> >>,
    <<"U+1E921", <<"U+1E943">> >>
  >>

\* The str each character of UnicodeCaseFold becomes, by character.
CaseFoldOf ==
  [c \in {UnicodeCaseFold[i][1] : i \in DOMAIN UnicodeCaseFold} |->
     UnicodeCaseFold[CHOOSE i \in DOMAIN UnicodeCaseFold : UnicodeCaseFold[i][1] = c][2]]

\* The str with every character case-folded.
RECURSIVE CaseFold(_)
CaseFold(s) ==
  IF s = <<>> THEN <<>>
  ELSE (IF Head(s) \in DOMAIN CaseFoldOf THEN CaseFoldOf[Head(s)] ELSE <<Head(s)>>)
         \o CaseFold(Tail(s))

\* Two strs are equal, letter case apart, when their case-folded forms are equal.
EqualIgnoringCase(s, t) ==
  CaseFold(s) = CaseFold(t)

\* A str matches a member of the enum when it equals the member's display
\* string up to letter case.
MatchesMember(s, enum) ==
  \E i \in DOMAIN enum : EqualIgnoringCase(s, ValueOf[enum[i]])

\* One of the four option arguments of the call matches no member of its enum.
HasInvalidOption ==
  \/ ~MatchesMember(call.subject_type, SubjectType)
  \/ ~MatchesMember(call.emotional_tone, EmotionalTone)
  \/ ~MatchesMember(call.intensity, IntensityLevel)
  \/ \E i \in DOMAIN call.visual_priorities :
       ~MatchesMember(call.visual_priorities[i], VisualPriority)

\* C1: enhance_with_intent called with a subject_type, emotional_tone, intensity or
\* visual priority that matches no member of its enumeration returns an error
\* response and never ends in a fault, whichever of the four fields is the invalid one.
C1_InvalidOptionIsError ==
  (call.op = "enhance_with_intent" /\ HasInvalidOption) => response.kind = "error"

\* C2: a call of enhance_with_intent whose option arguments are all valid (any list of
\* valid priorities, the empty one and duplicates included) ends in one of the two
\* outcomes, complete response or error only, and in the first of them: the response
\* holds parameters_used, enhanced_prompt, negative_prompt and design_intent_summary.
C2_ValidInputSucceeds ==
  (call.op = "enhance_with_intent" /\ ~HasInvalidOption) =>
    /\ response.kind \in {"ok", "error"}
    /\ response.kind = "ok"
    /\ {"parameters_used", "enhanced_prompt", "negative_prompt",
        "design_intent_summary"} \subseteq DOMAIN response

\* C3: every one of the six fields of the vector design_intent_to_parameters returns
\* lies in [0,10], for every subject type, tone, intensity level and priority list.
C3_VectorWithinBounds ==
  call.op = "design_intent_to_parameters" =>
    \A i \in DOMAIN ParamNames :
      0 <= response.params[ParamNames[i]] /\ response.params[ParamNames[i]] <= 10

\* An intent whose deltas and boosts sum above 10 on one field and below 0 on none,
\* resolved to a vector capped at 10.
C3_Witness ==
  /\ call.op = "design_intent_to_parameters"
  /\ call.design_intent = DesignIntent("ABSTRACT", "SURREAL", <<"SCALE", "DISTORTION">>,
                                       "EXTREME")
  /\ response.params.exaggeration = 10
  /\ response.params.physical = 10

\* The intent of enhance_with_intent("A corporate office", "architecture", "tense",
\* ["suspense"], "extreme").
C4_Intent ==
  DesignIntent(
    EnumGetItem(SubjectType,
                Upper(<<"a","r","c","h","i","t","e","c","t","u","r","e">>)).member,
    EnumGetItem(EmotionalTone, Upper(<<"t","e","n","s","e">>)).member,
    <<EnumGetItem(VisualPriority, Upper(<<"s","u","s","p","e","n","s","e">>)).member>>,
    EnumGetItem(IntensityLevel, Upper(<<"e","x","t","r","e","m","e">>)).member)

\* C4: for architecture, tense, [suspense], extreme the preset (7,4,6,7,6,8) is scaled
\* by 1.0 unchanged, the tense modifier gives (7,4,5,7,7,10) with tension clamped from
\* 11, the suspense boost leaves tension at 10, and the final vector is
\* (7,4,5,7,7,10).
C4_Scenario ==
  (call.op = "design_intent_to_parameters" /\ call.design_intent = C4_Intent) =>
    /\ olog.SUBJECT_TYPE_PRESETS[C4_Intent.subject_type]
         = SlapstickParameterSet(7, 4, 6, 7, 6, 8)
    /\ ScaledVector(C4_Intent) = SlapstickParameterSet(7, 4, 6, 7, 6, 8)
    /\ ScaledVector(C4_Intent).tension + 3 = 11
    /\ TonedVector(C4_Intent) = SlapstickParameterSet(7, 4, 5, 7, 7, 10)
    /\ WorkingVector(C4_Intent).tension = 10
    /\ response.params = SlapstickParameterSet(7, 4, 5, 7, 7, 10)

C4_Witness ==
  /\ call.op = "design_intent_to_parameters"
  /\ call.design_intent = DesignIntent("ARCHITECTURE", "TENSE", <<"SUSPENSE">>, "EXTREME")
  /\ response.kind = "value"

\* The argument of each parameter brought into [0,10].
ClampedArgs ==
  [p \in Range(ParamNames) |->
     IF call.args[p] < 0 THEN 0 ELSE IF call.args[p] > 10 THEN 10 ELSE call.args[p]]

\* C5: for every six integers, below 0 and above 10 included, enhance_with_parameters
\* succeeds, parameters_used holds max(0, min(10, value)) for each parameter, and both
\* prompts are rendered from that clamped vector.
C5_ClampedBeforeUse ==
  call.op = "enhance_with_parameters" =>
    /\ response.kind = "ok"
    /\ response.parameters_used = ClampedArgs
    /\ response.enhanced_prompt = build_enhanced_prompt(call.base_prompt, ClampedArgs)
    /\ response.negative_prompt = build_negative_prompt(ClampedArgs)

\* A call with one argument below 0 and one above 10, whose enhanced prompt differs
\* from what the arguments as given would render.
C5_Witness ==
  /\ call.op = "enhance_with_parameters"
  /\ call.args.exaggeration < 0
  /\ call.args.timing > 10
  /\ response.kind = "ok"
  /\ response.parameters_used.exaggeration = 0
  /\ response.parameters_used.timing = 10
  /\ response.enhanced_prompt # build_enhanced_prompt(call.base_prompt, call.args)

BaselineTerms ==
  <<"blurry", "low quality", "distorted", "ugly">>

\* The six gates in their fixed order: parameter, threshold, component.
NegativeGates ==
  << <<"exaggeration", 6, "high_exaggeration">>, <<"timing", 6, "high_timing">>,
     <<"physical", 6, "high_physical">>, <<"ruleOfThree", 6, "high_rule_of_three">>,
     <<"readability", 8, "low_readability">>, <<"tension", 6, "high_tension">> >>

\* The terms of the gates that hold for params, in the order of the gates.
RECURSIVE ConditionalTerms(_, _)
ConditionalTerms(params, gates) ==
  IF gates = <<>> THEN <<>>
  ELSE (IF params[Head(gates)[1]] >= Head(gates)[2]
        THEN NEGATIVE_PROMPT_COMPONENTS[Head(gates)[3]] ELSE <<>>)
       \o ConditionalTerms(params, Tail(gates))

UniformParameters(v) ==
  SlapstickParameterSet(v, v, v, v, v, v)

\* C6: build_negative_prompt returns the four baseline terms in order, then exactly the
\* conditional terms whose gate holds, in the fixed order; the all-zero and the all-5
\* vectors give the baseline alone, readability 10 with the others 0 gives the baseline
\* and the low-readability term alone.
C6_NegativePrompt ==
  call.op = "build_negative_prompt" =>
    /\ response.text = BaselineTerms \o ConditionalTerms(call.params, NegativeGates)
    /\ call.params \in {UniformParameters(0), UniformParameters(5)} =>
         response.text = BaselineTerms
    /\ call.params = [UniformParameters(0) EXCEPT !.readability = 10] =>
         response.text = BaselineTerms \o <<"cluttered", "confusing", "unclear silhouette">>

C6_Witness ==
  /\ call.op = "build_negative_prompt"
  /\ call.params = [UniformParameters(0) EXCEPT !.readability = 10]
  /\ Len(response.text) = 7
  /\ response.text[5] = "cluttered"

\* C7: no term appears more than once among the ", "-separated terms of the string
\* build_negative_prompt returns.
C7_NoTermTwice ==
  call.op = "build_negative_prompt" =>
    \A i, j \in DOMAIN response.text : i # j => response.text[i] # response.text[j]

\* The buckets of parameter p's enhancement table that hold the value of p in the call.
HoldingBuckets(p) ==
  {i \in DOMAIN EnhancementTables[p] :
     /\ EnhancementTables[p][i].min <= call.params[p]
     /\ call.params[p] <= EnhancementTables[p][i].max}

\* C8: exactly one bucket of each parameter's table holds the parameter's value, one of
\* [9,10], [6,8], [3,5], [0,2], so get_template returns that bucket's phrase and never
\* the empty string, and build_enhanced_prompt returns the base prompt followed by
\* exactly six fragments, the phrases of those buckets in the order exaggeration,
\* timing, physical, ruleOfThree, readability, tension; the all-5 vector selects the
\* [3,5] phrase six times.
C8_EnhancedPrompt ==
  call.op = "build_enhanced_prompt" =>
    LET holding == [p \in Range(ParamNames) |-> HoldingBuckets(p)]
        bucket  == [p \in Range(ParamNames) |->
                      EnhancementTables[p][CHOOSE i \in holding[p] : TRUE]]
    IN  /\ \A i \in DOMAIN ParamNames : Cardinality(holding[ParamNames[i]]) = 1
        /\ \A i \in DOMAIN ParamNames :
             LET p == ParamNames[i]
             IN  /\ <<bucket[p].min, bucket[p].max>>
                      \in {<<9, 10>>, <<6, 8>>, <<3, 5>>, <<0, 2>>}
                 /\ get_template(call.params[p], EnhancementTables[p]) = bucket[p].text
                 /\ bucket[p].text # EmptyStr
                 /\ call.params = DefaultParameters =>
                      (bucket[p].min = 3 /\ bucket[p].max = 5)
        /\ Len(EnhancementAdditions(call.params)) = 6
        /\ response.text = call.base_prompt \o bucket["exaggeration"].text
                             \o bucket["timing"].text \o bucket["physical"].text
                             \o bucket["ruleOfThree"].text \o bucket["readability"].text
                             \o bucket["tension"].text

C8_Witness ==
  /\ call.op = "build_enhanced_prompt"
  /\ call.base_prompt = <<"A corporate office">>
  /\ call.params = DefaultParameters
  /\ Len(response.text) = 9
  /\ response.text[1] = "A corporate office"
  /\ response.text[2] = "subtle scale variations and slightly heightened color saturation"
  /\ response.text[9] = "subtle underlying tension and unease"

\* The intent of the call with its priority list replaced.
WithPriorities(visual_priorities) ==
  [call.design_intent EXCEPT !.visual_priorities = visual_priorities]

\* C9: any permutation of the priority list yields the same final vector.
C9_OrderIrrelevant ==
  call.op = "design_intent_to_parameters" =>
    LET given == call.design_intent.visual_priorities
    IN  \A f \in Permutations(DOMAIN given) :
          design_intent_to_parameters(WithPriorities([i \in DOMAIN given |-> given[f[i]]]))
            = response.params

\* Two different priorities with the same target, the cap at 10 reached by the first.
C9_Witness ==
  /\ call.op = "design_intent_to_parameters"
  /\ call.design_intent = DesignIntent("ABSTRACT", "PLAYFUL", <<"SCALE", "DISTORTION">>,
                                       "EXTREME")
  /\ TonedVector(call.design_intent).exaggeration = 9
  /\ response.params.exaggeration = 10

\* The list without its element at position i.
WithoutAt(s, i) ==
  [k \in 1..(Len(s) - 1) |-> IF k < i THEN s[k] ELSE s[k + 1]]

\* C10: a priority list compared with the same list less one of its entries v (the
\* list v was added to): v's target parameter is not lower with v, and the other five
\* parameters are the same.
C10_BoostMonotone ==
  call.op = "design_intent_to_parameters" =>
    LET given == call.design_intent.visual_priorities
    IN  \A i \in DOMAIN given :
          LET target  == VISUAL_PRIORITY_BOOSTS[given[i]]
              omitted == design_intent_to_parameters(WithPriorities(WithoutAt(given, i)))
          IN  /\ response.params[target] >= omitted[target]
              /\ \A k \in DOMAIN ParamNames :
                   ParamNames[k] # target =>
                     response.params[ParamNames[k]] = omitted[ParamNames[k]]

\* A boost that raised its target by 2, and one the cap at 10 absorbed.
C10_Witness ==
  /\ call.op = "design_intent_to_parameters"
  /\ call.design_intent = DesignIntent("ARCHITECTURE", "TENSE", <<"SCALE", "SUSPENSE">>,
                                       "EXTREME")
  /\ response.params.exaggeration = TonedVector(call.design_intent).exaggeration + 2
  /\ response.params.tension = TonedVector(call.design_intent).tension

\* The bucket of parameter p's enhancement table whose phrase get_template returns for
\* value v.
SelectedBucket(p, v) ==
  LET table == EnhancementTables[p]
  IN  table[CHOOSE i \in DOMAIN table : table[i].text = get_template(v, table)]

\* C11: for every parameter and every value 0..10 the branch that
\* parameters_to_enhancement_description takes (>= 9, >= 6, >= 3, else) is taken by
\* exactly the values of the bucket ([9,10], [6,8], [3,5], [0,2]) get_template selects
\* for that value; the renderer produces exactly six entries, one per parameter, and
\* describe_parameters returns them with an entry 'parameters' that is the clamped
\* input vector.
C11_SameBucketPolicy ==
  call.op = "describe_parameters" =>
    /\ response.kind = "ok"
    /\ DOMAIN response = {"kind", "parameters"} \cup Range(ParamNames)
    /\ Cardinality(DOMAIN parameters_to_enhancement_description(ClampedArgs)) = 6
    /\ response.parameters = ClampedArgs
    /\ \A k \in DOMAIN ParamNames :
         LET p        == ParamNames[k]
             branches == DescriptionBranches[p]
             taken    == DescriptionBranch(ClampedArgs[p], branches)
             bucket   == SelectedBucket(p, ClampedArgs[p])
         IN  /\ response[p] = branches[taken].text
             /\ <<bucket.min, bucket.max>> \in {<<9, 10>>, <<6, 8>>, <<3, 5>>, <<0, 2>>}
             /\ {v \in 0..10 : DescriptionBranch(v, branches) = taken}
                  = bucket.min..bucket.max

\* Values at the lower edge of each bucket and arguments outside [0,10], described.
C11_Witness ==
  /\ call.op = "describe_parameters"
  /\ call.args.exaggeration = 9
  /\ call.args.timing > 10
  /\ response.exaggeration = "extreme distortions with impossible scales"
  /\ response.timing = "staccato visual interruptions"
  /\ response.tension = "subtle tension"
  /\ response.parameters.timing = 10

\* The vector the resolver yields for the intent from the tables as constructed,
\* before any call: the five steps applied to the values of the preset.
ResolvedAsConstructed(design_intent) ==
  LET scaled  == ScaleByIntensity(SUBJECT_TYPE_PRESETS[design_intent.subject_type],
                                  INTENSITY_MULTIPLIERS[design_intent.intensity_level])
      toned   == ApplyToneModifiers(scaled,
                                    EMOTIONAL_TONE_MODIFIERS[design_intent.emotional_tone])
      boosted == ApplyPriorityBoosts(toned, design_intent.visual_priorities,
                                     VISUAL_PRIORITY_BOOSTS)
  IN  ClampAll(boosted)

\* C12: after any sequence of calls of the four tools and of the resolver the static
\* tables (subject presets with the preset vector objects they hold, intensity
\* multipliers, tone modifiers, priority boosts) are as constructed, and the vector a
\* call of design_intent_to_parameters returns for a DesignIntent, whatever calls came
\* before it, is the vector the intent resolves to before any call.
C12_HistoryIndependent ==
  /\ olog = SlapstickOlogMorphisms
  /\ call.op = "design_intent_to_parameters" =>
       response.params = ResolvedAsConstructed(call.design_intent)

\* A call that stored values in params at every step (scaled by 0.3, tone deltas, a
\* boost): params ends as another object than the preset it was built from, with
\* other items, and the preset holds the fields it was constructed with.
C12_Witness ==
  /\ call.op = "design_intent_to_parameters"
  /\ call.design_intent = DesignIntent("ARCHITECTURE", "TENSE", <<"SCALE">>, "SUBTLE")
  /\ SubjectParams(call.design_intent) = "ARCHITECTURE"
  /\ Params(SubjectParams(call.design_intent)) # SubjectParams(call.design_intent)
  /\ GetObject(ObjectsAfterStep5(call.design_intent), NewDict) = response.params
  /\ GetObject(ObjectsAfterStep5(call.design_intent), "ARCHITECTURE") # response.params
  /\ ScaledVector(call.design_intent) # SUBJECT_TYPE_PRESETS["ARCHITECTURE"]
  /\ olog.SUBJECT_TYPE_PRESETS["ARCHITECTURE"] = SlapstickParameterSet(7, 4, 6, 7, 6, 8)

\* s: the preset value of parameter p of the call's subject type, times the multiplier
\* of its intensity level, rounded.
ScaledValue(p) ==
  LET multiplier == INTENSITY_MULTIPLIERS[call.design_intent.intensity_level]
  IN  Round(SUBJECT_TYPE_PRESETS[call.design_intent.subject_type][p] * multiplier.num,
            multiplier.den)

\* d: the delta of the call's tone for parameter p, 0 when the tone has none for p.
ToneDelta(p) ==
  LET modifiers == EMOTIONAL_TONE_MODIFIERS[call.design_intent.emotional_tone]
      mentions  == {i \in DOMAIN modifiers : modifiers[i][1] = p}
  IN  IF mentions = {} THEN 0 ELSE modifiers[CHOOSE i \in mentions : TRUE][2]

\* k: the number of entries of the call's priority list whose target is p.
BoostCount(p) ==
  Cardinality({i \in DOMAIN call.design_intent.visual_priorities :
                 VISUAL_PRIORITY_BOOSTS[call.design_intent.visual_priorities[i]] = p})

\* C13: for every DesignIntent and every parameter p the final value is
\* min(10, max(0, min(10, s + d)) + 2 * k): the preset value scaled and rounded, the
\* tone's delta added and clamped at once (a parameter the tone does not mention is
\* left as scaled), then 2 for every entry of the priority list that targets p,
\* duplicates counted, capped at 10.
C13_StageFormula ==
  call.op = "design_intent_to_parameters" =>
    LET toned     == TonedVector(call.design_intent)
        modifiers == EMOTIONAL_TONE_MODIFIERS[call.design_intent.emotional_tone]
    IN  \A i \in DOMAIN ParamNames :
          LET p == ParamNames[i]
              s == ScaledValue(p)
              d == ToneDelta(p)
              k == BoostCount(p)
          IN  /\ response.params[p] = Min(10, Max(0, Min(10, s + d)) + 2 * k)
              /\ Cardinality({j \in DOMAIN modifiers : modifiers[j][1] = p}) <= 1
              /\ d = 0 => toned[p] = s

\* A delta that takes the scaled value below 0, clamped to 0 before the boost is
\* added, beside a parameter boosted twice.
C13_Witness ==
  /\ call.op = "design_intent_to_parameters"
  /\ call.design_intent = DesignIntent("ABSTRACT", "ABSURD", <<"CLARITY", "CLARITY">>,
                                       "SUBTLE")
  /\ ScaledValue("readability") + ToneDelta("readability") < 0
  /\ BoostCount("readability") = 2
  /\ response.params.readability = 4

\* The response is the dictionary {"error": message}.
IsError(message) ==
  response.kind = "error" /\ response.error.message = message

\* C14: for every DesignIntent the working vector is within [0,10] on all six fields
\* when the final pass of design_intent_to_parameters begins, so the pass changes
\* nothing; enhance_with_intent never returns "Invalid parameters generated", and
\* enhance_with_parameters returns "Parameters must be between 0 and 10" for no
\* integer arguments.
C14_BackstopsUnreachable ==
  /\ call.op = "design_intent_to_parameters" =>
       LET working == WorkingVector(call.design_intent)
       IN  /\ \A i \in DOMAIN ParamNames :
                0 <= working[ParamNames[i]] /\ working[ParamNames[i]] <= 10
           /\ ClampAll(working) = working
           /\ response.params = working
           /\ validate_parameters(response.params)
  /\ call.op = "enhance_with_intent" => ~IsError("Invalid parameters generated")
  /\ call.op = "enhance_with_parameters" => ~IsError("Parameters must be between 0 and 10")

\* An intent whose tone delta and boosts each overshoot 10 on tension, left at 10 by
\* the clamps of steps 3 and 4 before the final pass.
C14_Witness ==
  /\ call.op = "design_intent_to_parameters"
  /\ call.design_intent = DesignIntent("ABSTRACT", "OMINOUS", <<"SUSPENSE", "BALANCE">>,
                                       "EXTREME")
  /\ ScaledVector(call.design_intent).tension + 4 > 10
  /\ WorkingVector(call.design_intent).tension = 10
  /\ response.params.tension = 10

\* num / den, den > 0, rounded to the nearest integer, a tie away from zero.
RoundHalfAwayFromZero(num, den) ==
  IF num >= 0 THEN (2 * num + den) \div (2 * den)
  ELSE 0 - ((2 * (0 - num) + den) \div (2 * den))

\* C15: for every subject type preset and every intensity multiplier of the tables
\* (0.3, 0.6, 0.85, 1.0 as exact decimals) the scaled value of each parameter, which
\* the code rounds half to even, is the value that rounding half away from zero
\* gives: the choice between the two rules changes no scaled value and so no resolved
\* vector.
C15_RoundingRuleIrrelevant ==
  call.op = "design_intent_to_parameters" =>
    LET preset     == SUBJECT_TYPE_PRESETS[call.design_intent.subject_type]
        multiplier == INTENSITY_MULTIPLIERS[call.design_intent.intensity_level]
        scaled     == ScaledVector(call.design_intent)
    IN  \A i \in DOMAIN ParamNames :
          scaled[ParamNames[i]]
            = RoundHalfAwayFromZero(preset[ParamNames[i]] * multiplier.num, multiplier.den)

\* A tie: portrait's timing 5 times 0.3 is 1.5, which both rules round to 2.
C15_Witness ==
  /\ call.op = "design_intent_to_parameters"
  /\ call.design_intent.subject_type = "PORTRAIT"
  /\ call.design_intent.intensity_level = "SUBTLE"
  /\ 2 * (SUBJECT_TYPE_PRESETS["PORTRAIT"].timing * INTENSITY_MULTIPLIERS["SUBTLE"].num)
       = 3 * INTENSITY_MULTIPLIERS["SUBTLE"].den
  /\ ScaledVector(call.design_intent).timing = 2

\* The str s in every letter case: each character as it is or upper-cased.
RECURSIVE CaseVariants(_)
CaseVariants(s) ==
  IF s = <<>> THEN {<<>>}
  ELSE {c \o rest : c \in {<<Head(s)>>, UpperChar(Head(s))},
                    rest \in CaseVariants(Tail(s))}

\* The four enums with the key of get_available_options that lists each.
OptionLists ==
  <<[key |-> "subject_types", enum |-> SubjectType],
    [key |-> "emotional_tones", enum |-> EmotionalTone],
    [key |-> "visual_priorities", enum |-> VisualPriority],
    [key |-> "intensity_levels", enum |-> IntensityLevel]>>

\* Every display string of the list, in every letter case, names by its upper-cased
\* form the member at its position, whose display string it is.
ListedResolve(listed, enum) ==
  /\ Len(listed) = Len(enum)
  /\ \A i \in DOMAIN listed :
       /\ NameOf[enum[i]] = Upper(listed[i])
       /\ \A s \in CaseVariants(listed[i]) :
            LET found == EnumGetItem(enum, Upper(s))
            IN  found.ok /\ found.member = enum[i] /\ ValueOf[found.member] = listed[i]

\* The display strings get_available_options lists under each key, case-folded.
ListedCaseFolded ==
  [k \in {OptionLists[i].key : i \in DOMAIN OptionLists} |->
     [i \in DOMAIN get_available_options[k] |-> CaseFold(get_available_options[k][i])]]

\* The lookup of the str in the enum as enhance_with_intent makes it: whether it
\* resolves, and whether the str is, letter case apart, a display string listed under
\* the key.  The tool looks up subject, tone, intensity and then the priorities in
\* order, and makes a lookup only when those before it resolved.
OptionLookup(s, key, enum) ==
  LET folded == CaseFold(s)
  IN  [resolves |-> EnumGetItem(enum, Upper(s)).ok,
       listed   |-> \E i \in DOMAIN ListedCaseFolded[key] :
                      ListedCaseFolded[key][i] = folded]

\* C16: every display string get_available_options returns (7 subject types, 9
\* tones, 10 priorities, 4 intensity levels), in any letter case, is accepted by the
\* lookup of enhance_with_intent (the upper-cased str as member name) and resolves to
\* the member whose display string it is, the name of each of the 30 members being its
\* upper-cased display string; and no str resolves that is not, letter case apart,
\* one of the listed strings.
C16_OptionsRoundTrip ==
  /\ call.op = "get_available_options" =>
       /\ Len(response.subject_types) = 7 /\ Len(response.emotional_tones) = 9
       /\ Len(response.visual_priorities) = 10 /\ Len(response.intensity_levels) = 4
       /\ \A k \in DOMAIN OptionLists :
            ListedResolve(response[OptionLists[k].key], OptionLists[k].enum)
  /\ call.op = "enhance_with_intent" =>
       LET subject    == OptionLookup(call.subject_type, "subject_types", SubjectType)
           tone       == OptionLookup(call.emotional_tone, "emotional_tones", EmotionalTone)
           intensity  == OptionLookup(call.intensity, "intensity_levels", IntensityLevel)
           priorities == [i \in DOMAIN call.visual_priorities |->
                            OptionLookup(call.visual_priorities[i], "visual_priorities",
                                         VisualPriority)]
       IN  /\ subject.resolves => subject.listed
           /\ subject.resolves => (tone.resolves => tone.listed)
           /\ (subject.resolves /\ tone.resolves) =>
                (intensity.resolves => intensity.listed)
           /\ (subject.resolves /\ tone.resolves /\ intensity.resolves) =>
                \A i \in DOMAIN priorities :
                  (\A j \in 1..i : priorities[j].resolves) => priorities[i].listed

====
